---- MODULE Spec2Model ----
(***************************************************************************)
(* A model of Shrimp's shell session manager (lib/shell/session-manager,   *)
(* the persistent-shell variant with write_stdin) and of the assistant     *)
(* turn orchestrator (lib/assistant.ts) with the streaming route that      *)
(* consumes its callbacks.                                                 *)
(*                                                                         *)
(* Time is a discrete clock; the millisecond constants of lib/config are   *)
(* scaled to clock ticks (their order is kept: sweep interval < TTL).      *)
(* A stream is a sequence of units; a unit is one ordinary character, the  *)
(* text of a sentinel line without its newline, or a newline.              *)
(***************************************************************************)
EXTENDS Integers, Sequences, FiniteSets, TLC

VARIABLES
    clock,        \* Date.now(), in ticks
    registered,   \* keys of the `sessions` map
    sess,         \* every ShellSessionInternal object ever created, by id
    acts,         \* every ActiveInteractiveCommand object ever created
    lastCleanup,  \* module variable lastCleanup
    nextToken,    \* fresh sentinel tokens left (randomUUID); the next one
    outLeft,      \* ordinary output chunks the child processes may still emit
    calls,        \* call frames of run_command / write_stdin (async functions)
    ret,          \* what the call that returned in the last step returned
    turn,         \* the running assistant turn (runAssistantTurn frame)
    toolCalls,    \* tool_calls table: ToolCallRecord by id
    messages,     \* messages table of the turn's conversation, in insert order
    sink,         \* the route's stream controller: state and enqueued events
    uuids,        \* how many values randomUUID() has handed out
    conversations, \* conversations table: a set of rows
    messageRows,  \* messages table of the store, in rowid order
    turns,        \* frames of the turns that run against the store
    runs,         \* trigger_runs table, by run id
    memoryFile,   \* data/system-prompt-memory.json: missing, or its item list
    targetFile,   \* the lines of the file edit_file works on
    channelStore, \* globalThis.__shrimpChannels, by channel
    starts,       \* frames of the startTelegram / startWhatsApp calls
    channelLinks, \* channel_links table: a set of rows
    simple,       \* the simple-exec session manager: sessions, lastCleanup, call
    workingMessages \* workingMessages of the running turn, after the history

shellVars == <<clock, registered, sess, acts, lastCleanup, nextToken, outLeft, calls, ret>>
shellRest == <<registered, sess, acts, lastCleanup, nextToken, outLeft, calls>>
turnVars == <<turn, toolCalls, messages, sink>>
storeVars == <<uuids, conversations, messageRows, turns, channelLinks>>
toolVars == <<memoryFile, targetFile, simple>>
channelVars == <<channelStore, starts>>
libVars == <<storeVars, runs, toolVars, channelVars, workingMessages>>
vars == <<clock, registered, sess, acts, lastCleanup, nextToken, outLeft, calls, ret,
          turn, toolCalls, messages, sink, uuids, conversations, messageRows, turns,
          runs, memoryFile, targetFile, channelStore, starts, channelLinks, simple,
          workingMessages>>

----------------------------------------------------------------------------
(* Bounds of the model *)

MaxClock == 2        \* the clock stops here (command specifications)
MaxActs == 1         \* interactive children alive at a time
MaxStdin == 1        \* non-empty stdin writes per process
PoolIds == 3         \* sessions ever created (pool specification)
CmdIds == 1          \* sessions ever created (command specification)
CmdTokens == 2       \* non-interactive commands ever started
CmdOut == 2          \* ordinary output chunks ever emitted (command specification)
ConcCallers == 2     \* tool calls in flight (concurrency specification)
ConcTokens == 1      \* non-interactive commands (concurrency specification)
PoolTokens == 2      \* non-interactive commands (pool specification)
PoolClock == 4       \* the clock stops here (pool specification)
MaxToolCalls == 9    \* tool calls dispatched in a turn
MaxCallsPerRound == 2 \* tool calls in one assistant message
MaxText == 1         \* length of the accumulated text at which tool rounds stop adding to it

(* lib/config and session-manager constants, in ticks / units *)
StartClock == 1
CLEANUP_INTERVAL_MS == 1
SESSION_TTL_MS == 2
DEFAULT_TIMEOUT_MS == 1
MAX_SESSIONS == 2
MAX_OUTPUT_CHARS == 2
STREAM_FLOOR == 3

ActIds == 1..MaxActs

Max(a, b) == IF a >= b THEN a ELSE b
Min(a, b) == IF a <= b THEN a ELSE b

None == <<>>
Some(x) == <<x>>
IsSome(o) == Len(o) > 0
Get(o) == o[1]

----------------------------------------------------------------------------
(* Paths: sequences of characters. *)

ProcessCwd == <<"/", "a">>
DirB == <<"/", "b">>
DirBSpace == <<"/", "b", " ">>

\* the white space of \s and of trim() among the characters used here
IsSpace(ch) == ch \in {" ", "\n", "\r"}

RECURSIVE TrimLeft(_)
TrimLeft(s) == IF s # <<>> /\ IsSpace(Head(s)) THEN TrimLeft(Tail(s)) ELSE s

RECURSIVE TrimRight(_)
TrimRight(s) ==
    IF s # <<>> /\ IsSpace(s[Len(s)]) THEN TrimRight(SubSeq(s, 1, Len(s) - 1)) ELSE s

\* String.prototype.trim
Trim(s) == TrimRight(TrimLeft(s))

\* the segments of a path between "/" characters, empty segments included
RECURSIVE SplitSlash(_, _)
SplitSlash(s, cur) ==
    IF s = <<>> THEN <<cur>>
    ELSE IF Head(s) = "/" THEN <<cur>> \o SplitSlash(Tail(s), <<>>)
    ELSE SplitSlash(Tail(s), Append(cur, Head(s)))

\* normalisation of the segment list: "" and "." dropped, ".." pops
RECURSIVE NormSegs(_, _)
NormSegs(segs, acc) ==
    IF segs = <<>> THEN acc
    ELSE LET h == Head(segs) IN
         IF h = <<>> \/ h = <<".">> THEN NormSegs(Tail(segs), acc)
         ELSE IF h = <<".", ".">>
              THEN NormSegs(Tail(segs),
                            IF acc = <<>> THEN acc ELSE SubSeq(acc, 1, Len(acc) - 1))
              ELSE NormSegs(Tail(segs), Append(acc, h))

RECURSIVE JoinSlash(_)
JoinSlash(segs) ==
    IF segs = <<>> THEN <<>> ELSE <<"/">> \o Head(segs) \o JoinSlash(Tail(segs))

\* path.resolve(p) on POSIX, the process's cwd being ProcessCwd
PathResolve(p) ==
    LET abs == IF p # <<>> /\ Head(p) = "/" THEN p ELSE ProcessCwd \o <<"/">> \o p
        segs == NormSegs(SplitSlash(abs, <<>>), <<>>)
    IN IF segs = <<>> THEN <<"/">> ELSE JoinSlash(segs)

----------------------------------------------------------------------------
(* BufferedStream *)

Unit(k, tok, code, cwd) == [k |-> k, tok |-> tok, code |-> code, cwd |-> cwd]
Ch(k) == Unit(k, 0, 0, <<>>)
OutCh == Ch("o")
ErrCh == Ch("e")
NL == Ch("nl")
TruncCh == Ch("trunc")
\* the text "__SHRIMP_DONE_<tok>:<code>:<cwd>"
Mark(tok, code, cwd) == Unit("mark", tok, code, cwd)

EmptyStream == [offset |-> 0, data |-> <<>>]

MaxLen == Max(MAX_OUTPUT_CHARS * 2, STREAM_FLOOR)

capStream(stream) ==
    IF Len(stream.data) <= MaxLen THEN stream
    ELSE LET drop == Len(stream.data) - MaxLen
         IN [offset |-> stream.offset + drop,
             data |-> SubSeq(stream.data, drop + 1, Len(stream.data))]

appendStream(stream, value) ==
    IF value = <<>> THEN stream
    ELSE capStream([stream EXCEPT !.data = @ \o value])

absolutePosition(stream) == stream.offset + Len(stream.data)

\* s.slice(a, b) for 0 <= a, 0 <= b
Slice(s, a, b) == SubSeq(s, a + 1, Min(b, Len(s)))

sliceStream(stream, startAbs, endAbs) ==
    IF endAbs <= startAbs THEN <<>>
    ELSE LET startRel == Max(0, startAbs - stream.offset)
             endRel == Min(Len(stream.data), endAbs - stream.offset)
         IN IF endRel <= startRel THEN <<>> ELSE Slice(stream.data, startRel, endRel)

removeRangeFromStream(stream, startAbs, endAbs) ==
    LET startRel == Max(0, startAbs - stream.offset)
        endRel == Min(Len(stream.data), endAbs - stream.offset)
    IN IF endRel <= startRel THEN stream
       ELSE [stream EXCEPT !.data = Slice(@, 0, startRel) \o Slice(@, endRel, Len(@))]

trimOutput(value) ==
    IF Len(value) <= MAX_OUTPUT_CHARS THEN value
    ELSE Append(SubSeq(value, Len(value) - MAX_OUTPUT_CHARS + 1, Len(value)), TruncCh)

----------------------------------------------------------------------------
(* Child processes and session objects *)

\* ChildProcess.kill(): a signal is sent; the process ends later
KillProc(p) == IF p = "alive" THEN "killed" ELSE p

NoSession ==
    [proc |-> "none", cwd |-> <<>>, lastUsedAt |-> 0,
     stdout |-> EmptyStream, stderr |-> EmptyStream,
     stdoutReadAt |-> 0, stderrReadAt |-> 0,
     pendingCommand |-> None, interactive |-> 0,
     shellq |-> <<>>, mid |-> FALSE, stdinChars |-> 0]

NoAct ==
    [proc |-> "none", exitCode |-> None,
     stdout |-> EmptyStream, stderr |-> EmptyStream,
     stdoutReadAt |-> 0, stderrReadAt |-> 0, stdinChars |-> 0]

\* the manager's module state, as one value
Cur == [registered |-> registered, sess |-> sess, acts |-> acts,
        lastCleanup |-> lastCleanup]

SessIds == DOMAIN sess
Callers == DOMAIN calls

FreeSessIds(M) == {i \in SessIds : M.sess[i].proc = "none"}
NewSessId(M) ==
    IF FreeSessIds(M) = {} THEN 0
    ELSE CHOOSE i \in FreeSessIds(M) : \A j \in FreeSessIds(M) : i <= j

FreeActIds(M) == {a \in ActIds : M.acts[a].proc = "none"}
NewActId(M) ==
    IF FreeActIds(M) = {} THEN 0
    ELSE CHOOSE a \in FreeActIds(M) : \A b \in FreeActIds(M) : a <= b

\* session.interactive?.process.kill()
KillInteractiveOf(M, ids) ==
    [a \in ActIds |->
        IF \E id \in ids : M.sess[id].interactive = a
        THEN [M.acts[a] EXCEPT !.proc = KillProc(@)]
        ELSE M.acts[a]]

\* session.process.kill()
KillShellOf(M, ids) ==
    [i \in SessIds |->
        IF i \in ids THEN [M.sess[i] EXCEPT !.proc = KillProc(@)] ELSE M.sess[i]]

Expired(M) ==
    {id \in M.registered : clock - M.sess[id].lastUsedAt > SESSION_TTL_MS}

SweepDue(M) == ~(clock - M.lastCleanup < CLEANUP_INTERVAL_MS)

\* an alternative sweep that also takes the sessions idle for exactly the TTL
cleanupSessionsAtTTL(M) ==
    LET old == {id \in M.registered : clock - M.sess[id].lastUsedAt >= SESSION_TTL_MS}
    IN IF ~SweepDue(M) THEN M
       ELSE [registered |-> M.registered \ old,
             sess |-> KillShellOf(M, old),
             acts |-> KillInteractiveOf(M, old),
             lastCleanup |-> clock]

cleanupSessions(M) ==
    IF ~SweepDue(M) THEN M
    ELSE [registered |-> M.registered \ Expired(M),
          sess |-> KillShellOf(M, Expired(M)),
          acts |-> KillInteractiveOf(M, Expired(M)),
          lastCleanup |-> clock]

\* [...sessions.values()].sort((a, b) => a.lastUsedAt - b.lastUsedAt)[0]:
\* the map iterates in insertion order (= id order) and the sort is stable
Oldest(M) ==
    CHOOSE id \in M.registered :
        \A j \in M.registered :
            \/ M.sess[id].lastUsedAt < M.sess[j].lastUsedAt
            \/ M.sess[id].lastUsedAt = M.sess[j].lastUsedAt /\ id <= j

\* an alternative capacity test that lets one more session in
PoolOverfull(M) == Cardinality(M.registered) > MAX_SESSIONS

\* sessions.size >= MAX_SESSIONS
PoolFull(M) == Cardinality(M.registered) >= MAX_SESSIONS

EvictOldest(M) ==
    IF PoolFull(M) /\ M.registered # {}
    THEN [M EXCEPT !.sess = KillShellOf(M, {Oldest(M)}),
                   !.registered = @ \ {Oldest(M)}]
    ELSE M

NewSession(cwd) ==
    [NoSession EXCEPT !.proc = "alive",
                      !.cwd = IF IsSome(cwd) THEN PathResolve(Get(cwd)) ELSE ProcessCwd,
                      !.lastUsedAt = clock]

\* returns [M, id]; id = 0 when the model has no session id left
createSessionInternal(M, cwd) ==
    LET M1 == EvictOldest(cleanupSessions(M))
        id == NewSessId(M1)
    IN IF id = 0 THEN [M |-> M, id |-> 0]
       ELSE [M |-> [M1 EXCEPT !.sess[id] = NewSession(cwd),
                              !.registered = @ \cup {id}],
             id |-> id]

ReplaceOnCwd(M, id, cwd) ==
    IsSome(cwd) /\ PathResolve(Get(cwd)) # M.sess[id].cwd

getSession(M, sessionId, cwd) ==
    IF IsSome(sessionId) /\ Get(sessionId) \in M.registered
    THEN LET id == Get(sessionId)
             M1 == [M EXCEPT !.sess[id].lastUsedAt = clock]
         IN IF ReplaceOnCwd(M1, id, cwd)
            THEN createSessionInternal(
                    [M1 EXCEPT !.sess = KillShellOf(M1, {id}),
                               !.registered = @ \ {id}], cwd)
            ELSE [M |-> M1, id |-> id]
    ELSE createSessionInternal(M, cwd)

----------------------------------------------------------------------------
(* Objects nothing refers to any more are forgotten: an interactive command  *)
(* held by no session and no frame, a session that is neither registered    *)
(* nor held by a frame. Their processes go on until they exit.              *)

Waiting(f) == f.pc \in {"wait", "wait_int", "ws_int", "ws_sh"}

SessionHeld(M, fr, id) ==
    id \in M.registered \/ \E c \in DOMAIN fr : Waiting(fr[c]) /\ fr[c].sid = id

ActHeld(M, fr, a) ==
    \/ \E id \in SessIds : SessionHeld(M, fr, id) /\ M.sess[id].interactive = a
    \/ \E c \in DOMAIN fr : Waiting(fr[c]) /\ fr[c].act = a

Forget(M, fr) ==
    [M EXCEPT
        !.sess = [id \in SessIds |->
                    IF M.sess[id].proc = "none" \/ SessionHeld(M, fr, id) THEN M.sess[id]
                    ELSE [NoSession EXCEPT !.proc = M.sess[id].proc]],
        !.acts = [a \in ActIds |->
                    IF ActHeld(M, fr, a) THEN M.acts[a]
                    ELSE IF M.acts[a].proc = "exited" THEN NoAct
                    ELSE [NoAct EXCEPT !.proc = M.acts[a].proc]]]

\* the step's effect on the manager's state and on the call frames
Commit(M, fr) ==
    /\ registered' = M.registered
    /\ sess' = Forget(M, fr).sess
    /\ acts' = Forget(M, fr).acts
    /\ lastCleanup' = M.lastCleanup
    /\ calls' = fr

----------------------------------------------------------------------------
(* Command completion *)

\* String.prototype.indexOf, 0-based, -1 when absent: the marker prefix
\* "__SHRIMP_DONE_<tok>:", and "\n" searched from `from`
IndexOfMarker(data, tok) ==
    LET hits == {i \in 1..Len(data) : data[i].k = "mark" /\ data[i].tok = tok}
    IN IF hits = {} THEN -1 ELSE (CHOOSE i \in hits : \A j \in hits : i <= j) - 1

IndexOfNewline(data, from) ==
    LET hits == {i \in 1..Len(data) : i - 1 >= from /\ data[i].k = "nl"}
    IN IF hits = {} THEN -1 ELSE (CHOOSE i \in hits : \A j \in hits : i <= j) - 1

\* parsed[2].trim() || session.cwd
CompletionCwd(s, parsedCwd) == IF Trim(parsedCwd) # <<>> THEN Trim(parsedCwd) ELSE s.cwd

\* returns [s, completion]: the session afterwards and the CommandCompletion
\* (None for null)
tryConsumePendingCompletion(s) ==
    IF ~IsSome(s.pendingCommand) THEN [s |-> s, completion |-> None]
    ELSE
    LET pending == Get(s.pendingCommand)
        markerRelStart == IndexOfMarker(s.stdout.data, pending.token)
        markerRelEnd == IndexOfNewline(s.stdout.data, markerRelStart)
        markerLine == Slice(s.stdout.data, markerRelStart, markerRelEnd)
    IN IF markerRelStart = -1 \/ markerRelEnd = -1 THEN [s |-> s, completion |-> None]
       \* the regular expression matches a line that is the marker text only
       ELSE IF Len(markerLine) # 1 THEN [s |-> s, completion |-> None]
       ELSE
       LET parsed == markerLine[1]
           markerStartAbs == s.stdout.offset + markerRelStart
           markerEndAbs == s.stdout.offset + markerRelEnd + 1
           stdout == sliceStream(s.stdout, pending.stdoutStart, markerStartAbs)
           stderr == sliceStream(s.stderr, pending.stderrStart, absolutePosition(s.stderr))
           cwd == CompletionCwd(s, parsed.cwd)
       IN [s |-> [s EXCEPT !.stdout = removeRangeFromStream(@, markerStartAbs, markerEndAbs),
                           !.cwd = PathResolve(cwd),
                           !.pendingCommand = None,
                           !.lastUsedAt = clock],
           completion |-> Some([exitCode |-> Some(parsed.code), cwd |-> cwd,
                                stdout |-> trimOutput(stdout),
                                stderr |-> trimOutput(stderr)])]

\* returns the completion ({exitCode}) or None
activeInteractiveCompletion(M, s) ==
    IF s.interactive = 0 THEN None
    ELSE IF ~IsSome(M.acts[s.interactive].exitCode) THEN None
    ELSE Some([exitCode |-> M.acts[s.interactive].exitCode])

----------------------------------------------------------------------------
(* Call frames and results *)

BusyText == <<Ch("busy")>>

NoResult ==
    [kind |-> "none", sessionId |-> 0, exitCode |-> None, stdout |-> <<>>,
     stderr |-> <<>>, timedOut |-> FALSE, cwd |-> <<>>, completed |-> None]

RunCommandResult(sessionId, exitCode, stdout, stderr, timedOut, cwd) ==
    [NoResult EXCEPT !.kind = "run", !.sessionId = sessionId, !.exitCode = exitCode,
                     !.stdout = stdout, !.stderr = stderr, !.timedOut = timedOut,
                     !.cwd = cwd]

WriteStdinResult(sessionId, stdout, stderr, completed) ==
    [NoResult EXCEPT !.kind = "write", !.sessionId = sessionId, !.stdout = stdout,
                     !.stderr = stderr, !.completed = completed]

UnknownSession(sessionId) ==
    [NoResult EXCEPT !.kind = "throw", !.sessionId = sessionId]

IdleFrame ==
    [pc |-> "idle", sid |-> 0, act |-> 0, started |-> 0, timeoutMs |-> 0, token |-> 0]

\* a new call takes the lowest free frame
Free(c) == calls[c].pc = "idle" /\ \A d \in DOMAIN calls : d < c => calls[d].pc # "idle"

\* the return of frame f of caller c: what it returned (or threw), with the
\* session, child and token the call worked on
NoRet == [c |-> 0, sid |-> 0, act |-> 0, token |-> 0, res |-> NoResult]
Returned(c, f, res) ==
    ret' = [c |-> c, sid |-> f.sid, act |-> f.act, token |-> f.token, res |-> res]

Idle(c) == [calls EXCEPT ![c] = IdleFrame]

CwdArgs == {None, Some(DirB)}
SentinelReports == {[code |-> 0, cwd |-> ProcessCwd], [code |-> 1, cwd |-> DirBSpace]}
ExitCodes == {0, 1}
SessionIdArgs == {None} \cup {Some(i) : i \in SessIds}

----------------------------------------------------------------------------
(* runCommand *)

\* an alternative busy test that looks at the shell command only
SessionBusyPendingOnly(s) == IsSome(s.pendingCommand)

\* session.pendingCommand || session.interactive
SessionBusy(s) == IsSome(s.pendingCommand) \/ s.interactive # 0

NewAct == [NoAct EXCEPT !.proc = "alive"]

\* runCommand up to its first await (lines 327-370 and 395-407)
RunCommand(c, sessionId, cwd, interactive, timeoutMs) ==
    /\ Free(c)
    /\ LET r == getSession(cleanupSessions(Cur), sessionId, cwd)
           M == r.M
           id == r.id
       IN /\ id # 0
          /\ IF SessionBusy(M.sess[id])
             THEN /\ Commit(M, calls)
                  /\ Returned(c, [IdleFrame EXCEPT !.sid = id],
                        RunCommandResult(id, None, <<>>, BusyText, FALSE, M.sess[id].cwd))
                  /\ UNCHANGED nextToken
             ELSE IF interactive
             THEN LET a == NewActId(M) IN
                  /\ a # 0
                  /\ Commit([M EXCEPT !.acts[a] = NewAct,
                                      !.sess[id].interactive = a,
                                      !.sess[id].lastUsedAt = clock],
                            [calls EXCEPT ![c] =
                                [IdleFrame EXCEPT !.pc = "wait_int", !.sid = id, !.act = a,
                                                  !.started = clock,
                                                  !.timeoutMs = timeoutMs]])
                  /\ ret' = NoRet
                  /\ UNCHANGED nextToken
             ELSE /\ nextToken > 0
                  /\ Commit([M EXCEPT
                                !.sess[id].pendingCommand =
                                    Some([token |-> nextToken,
                                          stdoutStart |-> absolutePosition(M.sess[id].stdout),
                                          stderrStart |-> absolutePosition(M.sess[id].stderr)]),
                                !.sess[id].shellq = Append(@, nextToken)],
                            [calls EXCEPT ![c] =
                                [IdleFrame EXCEPT !.pc = "wait", !.sid = id,
                                                  !.token = nextToken, !.started = clock,
                                                  !.timeoutMs = timeoutMs]])
                  /\ ret' = NoRet
                  /\ nextToken' = nextToken - 1
    /\ UNCHANGED <<clock, outLeft>>
    /\ UNCHANGED <<turnVars, libVars>>

\* the loop condition of the polls: now() - started < timeoutMs
PollExpired(f) == ~(clock - f.started < f.timeoutMs)

\* waitForCompletion, after a sleep: the sentinel is found
RunPollCompleted(c) ==
    LET f == calls[c]
        t == tryConsumePendingCompletion(sess[f.sid])
    IN /\ f.pc = "wait"
       /\ ~PollExpired(f)
       /\ IsSome(t.completion)
       /\ Commit([Cur EXCEPT !.sess[f.sid] = t.s], Idle(c))
       /\ Returned(c, f,
                 RunCommandResult(f.sid, Get(t.completion).exitCode,
                                  Get(t.completion).stdout, Get(t.completion).stderr,
                                  FALSE, Get(t.completion).cwd))
       /\ UNCHANGED <<clock, nextToken, outLeft>>
       /\ UNCHANGED <<turnVars, libVars>>

\* waitForCompletion, after a sleep: the loop condition fails
RunPollTimedOut(c) ==
    LET f == calls[c]
        s == sess[f.sid]
        stdoutStart == IF IsSome(s.pendingCommand) THEN Get(s.pendingCommand).stdoutStart
                       ELSE absolutePosition(s.stdout)
        stderrStart == IF IsSome(s.pendingCommand) THEN Get(s.pendingCommand).stderrStart
                       ELSE absolutePosition(s.stderr)
    IN /\ f.pc = "wait"
       /\ PollExpired(f)
       /\ Commit(Cur, Idle(c))
       /\ Returned(c, f,
                 RunCommandResult(f.sid, None,
                     trimOutput(sliceStream(s.stdout, stdoutStart, absolutePosition(s.stdout))),
                     trimOutput(sliceStream(s.stderr, stderrStart, absolutePosition(s.stderr))),
                     TRUE, s.cwd))
       /\ UNCHANGED <<clock, nextToken, outLeft>>
       /\ UNCHANGED <<turnVars, libVars>>

\* waitForInteractiveCompletion, after a sleep: the child has an exit code
IntPollCompleted(c) ==
    LET f == calls[c]
        completion == activeInteractiveCompletion(Cur, sess[f.sid])
        active == acts[f.act]
    IN /\ f.pc = "wait_int"
       /\ ~PollExpired(f)
       /\ IsSome(completion)
       /\ Commit([Cur EXCEPT !.sess[f.sid].interactive = 0], Idle(c))
       /\ Returned(c, f,
                 RunCommandResult(f.sid, Get(completion).exitCode,
                     trimOutput(sliceStream(active.stdout, 0, absolutePosition(active.stdout))),
                     trimOutput(sliceStream(active.stderr, 0, absolutePosition(active.stderr))),
                     FALSE, sess[f.sid].cwd))
       /\ UNCHANGED <<clock, nextToken, outLeft>>
       /\ UNCHANGED <<turnVars, libVars>>

IntPollTimedOut(c) ==
    LET f == calls[c]
        active == acts[f.act]
    IN /\ f.pc = "wait_int"
       /\ PollExpired(f)
       /\ Commit(Cur, Idle(c))
       /\ Returned(c, f,
                 RunCommandResult(f.sid, None,
                     trimOutput(sliceStream(active.stdout, 0, absolutePosition(active.stdout))),
                     trimOutput(sliceStream(active.stderr, 0, absolutePosition(active.stderr))),
                     TRUE, sess[f.sid].cwd))
       /\ UNCHANGED <<clock, nextToken, outLeft>>
       /\ UNCHANGED <<turnVars, libVars>>

----------------------------------------------------------------------------
(* writeStdin *)

CharsArgs == {0, 1}      \* length of `chars`
YieldArgs == {0, 1}      \* yieldMs: 0, or positive

\* the interactive branch after its sleep (lines 454-478), `a` being `active`
WriteStdinInteractiveRest(c, f, M, id, a) ==
    LET active == M.acts[a]
        stdoutEnd == absolutePosition(active.stdout)
        stderrEnd == absolutePosition(active.stderr)
        stdout == trimOutput(sliceStream(active.stdout, active.stdoutReadAt, stdoutEnd))
        stderr == trimOutput(sliceStream(active.stderr, active.stderrReadAt, stderrEnd))
        completion == activeInteractiveCompletion(M, M.sess[id])
    IN /\ Commit([M EXCEPT !.acts[a].stdoutReadAt = stdoutEnd,
                           !.acts[a].stderrReadAt = stderrEnd,
                           !.sess[id].interactive = IF IsSome(completion) THEN 0 ELSE @,
                           !.sess[id].lastUsedAt = clock],
                 Idle(c))
       /\ Returned(c, f,
                 WriteStdinResult(id, stdout, stderr,
                     IF IsSome(completion)
                     THEN Some([exitCode |-> Get(completion).exitCode,
                                cwd |-> M.sess[id].cwd])
                     ELSE None))

\* the shell branch after its sleep (lines 488-510)
WriteStdinShellRest(c, f, M, id) ==
    LET s == M.sess[id]
        stdoutEnd == absolutePosition(s.stdout)
        stderrEnd == absolutePosition(s.stderr)
        stdout == trimOutput(sliceStream(s.stdout, s.stdoutReadAt, stdoutEnd))
        stderr == trimOutput(sliceStream(s.stderr, s.stderrReadAt, stderrEnd))
        t == tryConsumePendingCompletion(s)
    IN /\ Commit([M EXCEPT !.sess[id] = [t.s EXCEPT !.stdoutReadAt = stdoutEnd,
                                                    !.stderrReadAt = stderrEnd,
                                                    !.lastUsedAt = clock]],
                 Idle(c))
       /\ Returned(c, f,
                 WriteStdinResult(id, stdout, stderr,
                     IF IsSome(t.completion)
                     THEN Some([exitCode |-> Get(t.completion).exitCode,
                                cwd |-> Get(t.completion).cwd])
                     ELSE None))

\* an alternative that writes to the process of the session object without
\* looking the id up
WriteStdinUnregistered(c, sessionId, chars, yieldMs) ==
    /\ Free(c)
    /\ sess[sessionId].stdinChars < MaxStdin
    /\ Commit([cleanupSessions(Cur) EXCEPT !.sess[sessionId].stdinChars = @ + 1,
                                           !.sess[sessionId].lastUsedAt = clock,
                                           !.registered = @ \cup {sessionId}], calls)
    /\ Returned(c, [IdleFrame EXCEPT !.sid = sessionId],
                WriteStdinResult(sessionId, <<>>, <<>>, None))
    /\ UNCHANGED <<clock, nextToken, outLeft>>
    /\ UNCHANGED <<turnVars, libVars>>

\* writeStdin up to its first await (or to its end when it does not sleep)
WriteStdin(c, sessionId, chars, yieldMs) ==
    /\ Free(c)
    /\ LET M == cleanupSessions(Cur)
           f == [IdleFrame EXCEPT !.sid = sessionId]
           waitMs == Max(0, yieldMs)
       IN IF sessionId \notin M.registered
          THEN Commit(M, calls) /\ Returned(c, f, UnknownSession(sessionId))
          ELSE IF M.sess[sessionId].interactive # 0
          THEN LET a == M.sess[sessionId].interactive
                   fa == [f EXCEPT !.act = a]
               IN IF chars > 0
                  THEN /\ M.acts[a].stdinChars < MaxStdin
                       /\ LET M1 == [M EXCEPT !.acts[a].stdinChars = @ + 1]
                          IN IF waitMs > 0
                             THEN /\ Commit(M1, [calls EXCEPT ![c] = [fa EXCEPT !.pc = "ws_int"]])
                                  /\ ret' = NoRet
                             ELSE WriteStdinInteractiveRest(c, fa, M1, sessionId, a)
                  ELSE WriteStdinInteractiveRest(c, fa, M, sessionId, a)
          ELSE /\ chars > 0 => M.sess[sessionId].stdinChars < MaxStdin
               /\ LET M1 == IF chars > 0
                            THEN [M EXCEPT !.sess[sessionId].stdinChars = @ + 1]
                            ELSE M
                  IN IF waitMs > 0
                     THEN /\ Commit(M1, [calls EXCEPT ![c] = [f EXCEPT !.pc = "ws_sh"]])
                          /\ ret' = NoRet
                     ELSE WriteStdinShellRest(c, f, M1, sessionId)
    /\ UNCHANGED <<clock, nextToken, outLeft>>
    /\ UNCHANGED <<turnVars, libVars>>

WriteStdinInteractiveResume(c) ==
    /\ calls[c].pc = "ws_int"
    /\ WriteStdinInteractiveRest(c, calls[c], Cur, calls[c].sid, calls[c].act)
    /\ UNCHANGED <<clock, nextToken, outLeft>>
    /\ UNCHANGED <<turnVars, libVars>>

WriteStdinShellResume(c) ==
    /\ calls[c].pc = "ws_sh"
    /\ WriteStdinShellRest(c, calls[c], Cur, calls[c].sid)
    /\ UNCHANGED <<clock, nextToken, outLeft>>
    /\ UNCHANGED <<turnVars, libVars>>

----------------------------------------------------------------------------
(* The other exported operations *)

CreateShellSession(cwd) ==
    /\ LET r == createSessionInternal(Cur, cwd)
       IN r.id # 0 /\ Commit(r.M, calls)
    /\ ret' = NoRet
    /\ UNCHANGED <<clock, nextToken, outLeft>>
    /\ UNCHANGED <<turnVars, libVars>>

CloseShellSession(sessionId) ==
    /\ sessionId \in registered
    /\ Commit([Cur EXCEPT !.acts = KillInteractiveOf(Cur, {sessionId}),
                          !.sess = KillShellOf(Cur, {sessionId}),
                          !.registered = @ \ {sessionId}],
              calls)
    /\ ret' = NoRet
    /\ UNCHANGED <<clock, nextToken, outLeft>>
    /\ UNCHANGED <<turnVars, libVars>>

\* listShellSessions: a sweep
ListShellSessions ==
    /\ SweepDue(Cur)
    /\ Commit(cleanupSessions(Cur), calls)
    /\ ret' = NoRet
    /\ UNCHANGED <<clock, nextToken, outLeft>>
    /\ UNCHANGED <<turnVars, libVars>>

----------------------------------------------------------------------------
(* The environment: time and the child processes *)

Tick(max) ==
    /\ clock < max
    /\ clock' = clock + 1
    /\ ret' = NoRet
    /\ UNCHANGED <<registered, sess, acts, lastCleanup, nextToken, outLeft, calls>>
    /\ UNCHANGED <<turnVars, libVars>>

\* a handler of a child process ran
Event(M) ==
    /\ Commit(M, calls)
    /\ ret' = NoRet
    /\ UNCHANGED <<clock, nextToken>>
    /\ UNCHANGED <<turnVars, libVars>>

\* child.stdout.on("data") / child.stderr.on("data") of a session's shell
ShellOutput(id, toStdout) ==
    /\ sess[id].proc = "alive"
    /\ SessionHeld(Cur, calls, id)
    /\ ~sess[id].mid
    /\ outLeft > 0
    /\ outLeft' = outLeft - 1
    /\ Event(IF toStdout
             THEN [Cur EXCEPT !.sess[id].stdout = appendStream(@, <<OutCh>>)]
             ELSE [Cur EXCEPT !.sess[id].stderr = appendStream(@, <<ErrCh>>)])

\* the shell runs the printf of the oldest script it was given; the line
\* arrives in one chunk, or its newline arrives in a later chunk (split)
ShellSentinel(id, report, split) ==
    /\ sess[id].proc = "alive"
    /\ ~sess[id].mid
    /\ sess[id].shellq # <<>>
    /\ LET line == <<Mark(Head(sess[id].shellq), report.code, report.cwd)>>
       IN Event([Cur EXCEPT
                    !.sess[id].stdout =
                        appendStream(@, IF split THEN line ELSE Append(line, NL)),
                    !.sess[id].shellq = Tail(@),
                    !.sess[id].mid = split])
    /\ UNCHANGED outLeft

ShellNewline(id) ==
    /\ sess[id].proc = "alive"
    /\ sess[id].mid
    /\ Event([Cur EXCEPT !.sess[id].stdout = appendStream(@, <<NL>>),
                         !.sess[id].mid = FALSE])
    /\ UNCHANGED outLeft

\* child.on("exit") of a session's shell
ShellExit(id) ==
    /\ sess[id].proc = "alive"
    /\ Event([Cur EXCEPT !.sess[id].proc = "exited", !.registered = @ \ {id}])
    /\ UNCHANGED outLeft

\* data events of an interactive child
InteractiveOutput(a, toStdout) ==
    /\ acts[a].proc = "alive"
    /\ ActHeld(Cur, calls, a)
    /\ outLeft > 0
    /\ outLeft' = outLeft - 1
    /\ Event(IF toStdout
             THEN [Cur EXCEPT !.acts[a].stdout = appendStream(@, <<OutCh>>)]
             ELSE [Cur EXCEPT !.acts[a].stderr = appendStream(@, <<ErrCh>>)])

\* the interactive child exits with a code: process.exitCode = code
InteractiveExit(a, code) ==
    /\ acts[a].proc \in {"alive", "killed"}
    /\ Event([Cur EXCEPT !.acts[a].proc = "exited", !.acts[a].exitCode = Some(code)])
    /\ UNCHANGED outLeft

\* the interactive child is ended by a signal: process.exitCode stays null
InteractiveSignalled(a) ==
    /\ acts[a].proc \in {"alive", "killed"}
    /\ Event([Cur EXCEPT !.acts[a].proc = "exited"])
    /\ UNCHANGED outLeft

----------------------------------------------------------------------------
(* The session manager's specification *)

\* no turn has started
NoTurn ==
    [pc |-> "idle", i |-> 0, llmCalls |-> 0, pendingCalls |-> 0, cur |-> 0,
     text |-> <<>>, bubbles |-> <<>>, messageIds |-> <<>>, bi |-> 0, chunksLeft |-> 0,
     error |-> "none", conversationId |-> 0]
NoSink == [state |-> "none", events |-> <<>>]

TurnIdle ==
    /\ turn = NoTurn
    /\ toolCalls = <<>>
    /\ messages = <<>>
    /\ sink = NoSink

\* lib/shell/session-manager.ts before anything ran: the sessions map, the
\* module variable lastCleanup, the ids handed out and the exec in flight
NoSimple == [sessions |-> <<>>, lastCleanup |-> 0, created |-> 0, exec |-> None]

\* the store, the jobs, the file tools and the channels before anything ran
StoreIdle ==
    /\ uuids = 0
    /\ conversations = {}
    /\ messageRows = <<>>
    /\ turns = <<>>
    /\ channelLinks = {}

JobsIdle == runs = <<>> /\ workingMessages = <<>>

ToolsIdle ==
    /\ memoryFile = None
    /\ targetFile = <<>>
    /\ simple = NoSimple

ChannelsIdle ==
    /\ channelStore = <<>>
    /\ starts = <<>>

LibIdle == StoreIdle /\ JobsIdle /\ ToolsIdle /\ ChannelsIdle

ShellInit(ids, callers, tokens, out) ==
    /\ clock = StartClock
    /\ registered = {}
    /\ sess = [i \in 1..ids |-> NoSession]
    /\ acts = [a \in ActIds |-> NoAct]
    /\ lastCleanup = 0
    /\ nextToken = tokens
    /\ outLeft = out
    /\ calls = [c \in 1..callers |-> IdleFrame]
    /\ ret = NoRet

\* the tool calls that reach the session manager
ShellCalls ==
    \/ \E c \in Callers, sessionId \in SessionIdArgs, cwd \in CwdArgs,
          interactive \in BOOLEAN :
            RunCommand(c, sessionId, cwd, interactive, DEFAULT_TIMEOUT_MS)
    \/ \E c \in Callers : RunPollCompleted(c)
    \/ \E c \in Callers : RunPollTimedOut(c)
    \/ \E c \in Callers : IntPollCompleted(c)
    \/ \E c \in Callers : IntPollTimedOut(c)
    \/ \E c \in Callers, sessionId \in SessIds, chars \in CharsArgs, yieldMs \in YieldArgs :
            WriteStdin(c, sessionId, chars, yieldMs)
    \/ \E c \in Callers : WriteStdinInteractiveResume(c)
    \/ \E c \in Callers : WriteStdinShellResume(c)

\* the pool's own operations
PoolCalls ==
    \/ \E cwd \in CwdArgs : CreateShellSession(cwd)
    \/ \E sessionId \in SessIds : CloseShellSession(sessionId)
    \/ ListShellSessions

\* what the children do besides printing
ShellEnv ==
    \/ Tick(MaxClock)
    \/ \E id \in SessIds, report \in SentinelReports, split \in BOOLEAN :
            ShellSentinel(id, report, split)
    \/ \E id \in SessIds : ShellNewline(id)
    \/ \E id \in SessIds : ShellExit(id)
    \/ \E a \in ActIds, code \in ExitCodes : InteractiveExit(a, code)
    \/ \E a \in ActIds : InteractiveSignalled(a)

ShellOutputs ==
    \/ \E id \in SessIds, toStdout \in BOOLEAN : ShellOutput(id, toStdout)
    \/ \E a \in ActIds, toStdout \in BOOLEAN : InteractiveOutput(a, toStdout)

\* one caller at a time, the children printing
CmdInit == ShellInit(CmdIds, 1, CmdTokens, CmdOut) /\ TurnIdle /\ LibIdle
CmdNext ==
    \/ ShellCalls
    \/ \E sessionId \in SessIds : CloseShellSession(sessionId)
    \/ ShellEnv
    \/ ShellOutputs
CmdSpec == CmdInit /\ [][CmdNext]_vars

\* two tool calls in flight on one session
ConcInit == ShellInit(1, ConcCallers, ConcTokens, 0) /\ TurnIdle /\ LibIdle
ConcNext == ShellCalls \/ PoolCalls \/ ShellEnv
ConcSpec == ConcInit /\ [][ConcNext]_vars

\* the pool over time: commands that print nothing and never complete
PoolRun ==
    \/ \E c \in Callers, sessionId \in SessionIdArgs, cwd \in CwdArgs :
            RunCommand(c, sessionId, cwd, FALSE, DEFAULT_TIMEOUT_MS)
    \/ \E c \in Callers : RunPollTimedOut(c)
    \/ \E c \in Callers, sessionId \in SessIds : WriteStdin(c, sessionId, 0, 0)
    \/ \E id \in SessIds : ShellExit(id)
    \/ Tick(PoolClock)
PoolInit == ShellInit(PoolIds, 1, PoolTokens, 0) /\ TurnIdle /\ LibIdle
PoolNext == PoolRun \/ PoolCalls
PoolSpec == PoolInit /\ [][PoolNext]_vars

----------------------------------------------------------------------------
(* Properties of the session manager *)

\* the sentinel line of command `tok` is whole in the retained stdout
HasSentinelLine(s, tok) ==
    LET i == IndexOfMarker(s.stdout.data, tok)
    IN i # -1 /\ IndexOfNewline(s.stdout.data, i) = i + 1

\* what that sentinel line reports
Reported(s, tok) == s.stdout.data[IndexOfMarker(s.stdout.data, tok) + 1]

\* C1: under any interleaving of run_command (interactive or not), write_stdin,
\* close, sweeps and child output/exit events, no session has both
\* pendingCommand and activeInteractive set.
C1_AtMostOneInFlight ==
    \A id \in SessIds : ~(IsSome(sess[id].pendingCommand) /\ sess[id].interactive # 0)

\* a run_command was just refused on a session whose interactive command another
\* call is still waiting for
C1_Witness ==
    /\ ret.res.kind = "run" /\ ret.res.stderr = BusyText
    /\ ret.sid \in registered
    /\ sess[ret.sid].interactive # 0
    /\ \E c \in Callers : calls[c].pc = "wait_int" /\ calls[c].sid = ret.sid

\* the session as run_command may leave it when it refuses: only the
\* last-used time moves
Untouched(id) ==
    /\ id \in registered'
    /\ sess'[id] = [sess[id] EXCEPT !.lastUsedAt = sess'[id].lastUsedAt]
    /\ acts' = acts
    /\ \A j \in SessIds : sess[j].proc = "none" => sess'[j].proc = "none"
    /\ nextToken' = nextToken
    /\ calls' = calls

\* C3: run_command addressed to a registered session that has a command in
\* flight returns at once the structured busy result (exitCode null, timedOut
\* false, explanatory stderr), writes nothing, spawns nothing and leaves the
\* session and its command untouched, whatever the other arguments, cwd included.
C3_BusyIsRefused ==
    [][\A c \in Callers, id \in SessIds, cwd \in CwdArgs, interactive \in BOOLEAN :
        ( /\ id \in registered
          /\ SessionBusy(sess[id])
          /\ RunCommand(c, Some(id), cwd, interactive, DEFAULT_TIMEOUT_MS) )
        => /\ ret'.res = RunCommandResult(id, None, <<>>, BusyText, FALSE, sess[id].cwd)
           /\ Untouched(id)]_vars

\* a busy session was addressed with a cwd and is still there, busy
C3_Witness ==
    /\ ret.res.kind = "run" /\ ret.res.stderr = BusyText
    /\ ret.sid \in registered
    /\ IsSome(sess[ret.sid].pendingCommand)
    /\ sess[ret.sid].cwd = DirB

\* the step is the return of a write_stdin that took the shell branch
WriteStdinShellReturns(id) ==
    ret'.res.kind = "write" /\ ret'.sid = id /\ ret'.act = 0

\* the step is the return of a write_stdin that took the interactive branch
WriteStdinInteractiveReturns(a) ==
    ret'.res.kind = "write" /\ ret'.act = a

\* C4: when a non-interactive run_command returns timedOut = true, its sentinel
\* line is not in the session's retained stdout and pendingCommand is still
\* set; a later write_stdin that finds the sentinel line in the retained stdout
\* returns a completed block with the sentinel's exit code and cwd and clears
\* pendingCommand.
C4_TimeoutThenDrain ==
    [][/\ \A c \in Callers :
            RunPollTimedOut(c) =>
                /\ ~HasSentinelLine(sess[calls[c].sid], calls[c].token)
                /\ IsSome(sess[calls[c].sid].pendingCommand)
                /\ Get(sess[calls[c].sid].pendingCommand).token = calls[c].token
       /\ \A id \in SessIds :
            ( /\ WriteStdinShellReturns(id)
              /\ IsSome(sess[id].pendingCommand)
              /\ HasSentinelLine(sess[id], Get(sess[id].pendingCommand).token) )
            => LET rep == Reported(sess[id], Get(sess[id].pendingCommand).token)
               IN /\ ret'.res.completed =
                        Some([exitCode |-> Some(rep.code), cwd |-> rep.cwd])
                  /\ sess'[id].pendingCommand = None]_vars

\* a command timed out, and a later write_stdin returned its completed block
C4_Witness ==
    /\ ret.res.kind = "write"
    /\ IsSome(ret.res.completed)
    /\ ret.sid \in registered
    /\ sess[ret.sid].pendingCommand = None
    /\ nextToken < CmdTokens

\* C5: an interactive run_command returns the child's exit code and clears
\* activeInteractive if the child exits within the timeout; otherwise it returns
\* timedOut = true, exitCode = null and leaves activeInteractive set. A later
\* write_stdin returns a completed block iff the child has exited at that
\* moment, and clears activeInteractive exactly then.
C5_InteractiveCompletion ==
    [][/\ \A c \in Callers :
            IntPollCompleted(c) =>
                /\ ~ret'.res.timedOut
                /\ acts[calls[c].act].proc = "exited"
                /\ ret'.res.exitCode = acts[calls[c].act].exitCode
                /\ sess'[calls[c].sid].interactive = 0
       /\ \A c \in Callers :
            IntPollTimedOut(c) =>
                /\ ret'.res.timedOut
                /\ ret'.res.exitCode = None
                /\ sess[calls[c].sid].interactive = calls[c].act
       /\ \A a \in ActIds :
            (WriteStdinInteractiveReturns(a) /\ ret'.sid \in registered')
            => /\ IsSome(ret'.res.completed) <=> acts[a].proc = "exited"
               /\ sess'[ret'.sid].interactive = 0 <=> acts[a].proc = "exited"]_vars

\* a write_stdin found the interactive child exited and returned its code
C5_Witness ==
    /\ ret.res.kind = "write"
    /\ ret.act # 0
    /\ ret.res.completed = Some([exitCode |-> Some(1), cwd |-> ProcessCwd])
    /\ ret.sid \in registered
    /\ sess[ret.sid].interactive = 0

\* C6: whenever a non-interactive run_command returns timedOut = false after
\* its sentinel was found, the session's cwd is the directory the sentinel
\* reports, the returned cwd is that value too, and the returned exit code is
\* the sentinel's.
C6_CwdFollowsSentinel ==
    [][\A c \in Callers :
        RunPollCompleted(c) =>
            LET rep == Reported(sess[calls[c].sid], calls[c].token)
            IN /\ ~ret'.res.timedOut
               /\ ret'.res.exitCode = Some(rep.code)
               /\ ret'.res.cwd = rep.cwd
               /\ calls[c].sid \in registered' => sess'[calls[c].sid].cwd = rep.cwd]_vars

\* a command completed and the session followed it to the reported directory
C6_Witness ==
    /\ ret.res.kind = "run" /\ ~ret.res.timedOut /\ ret.token # 0
    /\ ret.res.exitCode = Some(0)
    /\ ret.sid \in registered
    /\ sess[ret.sid].cwd = ProcessCwd
    /\ ret.res.cwd = ProcessCwd

\* the manager states a creation can start from: createShellSession's, and
\* runCommand's after its own sweep
CreationStarts == {Cur, cleanupSessions(Cur)}

\* C7: the registered sessions never exceed MAX_SESSIONS, and a creation that
\* finds the pool full removes one session, one with the smallest lastUsedAt
\* among the registered sessions.
C7_PoolBounded ==
    /\ Cardinality(registered) <= MAX_SESSIONS
    /\ \A M0 \in CreationStarts, cwd \in CwdArgs :
        LET M == cleanupSessions(M0)
            r == createSessionInternal(M0, cwd)
            removed == M.registered \ r.M.registered
        IN (Cardinality(M.registered) >= MAX_SESSIONS /\ r.id # 0)
           => \E x \in M.registered :
                /\ removed = {x}
                /\ \A j \in M.registered : M.sess[x].lastUsedAt <= M.sess[j].lastUsedAt
                /\ Cardinality(r.M.registered) <= MAX_SESSIONS

\* the pool is full again after a creation evicted the older of two sessions
\* last used at different times
C7_Witness ==
    /\ Cardinality(registered) = MAX_SESSIONS
    /\ \E x \in SessIds \ registered, i, j \in registered :
        /\ sess[x].proc = "killed"
        /\ x < i /\ i < j
        /\ sess[i].lastUsedAt < sess[j].lastUsedAt
        /\ sess[j].lastUsedAt = clock

----------------------------------------------------------------------------
(* The assistant's text: sequences of characters, the tags <think> and       *)
(* </think> being one unit each.                                            *)

ThinkOpen == "<think>"
ThinkClose == "</think>"

RECURSIVE DropThrough(_, _)
\* what follows the first `ch` of s
DropThrough(s, ch) == IF Head(s) = ch THEN Tail(s) ELSE DropThrough(Tail(s), ch)

Contains(s, ch) == \E i \in 1..Len(s) : s[i] = ch

RECURSIVE StripThinkBlocks(_)
\* replace(/<think>[\s\S]*?<\/think>/gi, "")
StripThinkBlocks(s) ==
    IF s = <<>> THEN <<>>
    ELSE IF Head(s) = ThinkOpen /\ Contains(Tail(s), ThinkClose)
         THEN StripThinkBlocks(DropThrough(Tail(s), ThinkClose))
         ELSE <<Head(s)>> \o StripThinkBlocks(Tail(s))

IsNoThinkTag(ch) == ch \notin {ThinkOpen, ThinkClose}

sanitizeAssistantText(text) == Trim(SelectSeq(StripThinkBlocks(text), IsNoThinkTag))

RECURSIVE DropNewlines(_)
DropNewlines(s) == IF s # <<>> /\ Head(s) = "\n" THEN DropNewlines(Tail(s)) ELSE s

RECURSIVE SplitParagraphs(_, _)
\* split(/\n{2,}/)
SplitParagraphs(s, cur) ==
    IF s = <<>> THEN <<cur>>
    ELSE IF Len(s) >= 2 /\ s[1] = "\n" /\ s[2] = "\n"
         THEN <<cur>> \o SplitParagraphs(DropNewlines(s), <<>>)
         ELSE SplitParagraphs(Tail(s), Append(cur, Head(s)))

SentenceEnd == {".", "!", "?"}

RECURSIVE SplitSentences(_, _)
\* split(/(?<=[.!?])\s+/)
SplitSentences(s, cur) ==
    IF s = <<>> THEN <<cur>>
    ELSE IF cur # <<>> /\ cur[Len(cur)] \in SentenceEnd /\ IsSpace(Head(s))
         THEN <<cur>> \o SplitSentences(TrimLeft(s), <<>>)
         ELSE SplitSentences(Tail(s), Append(cur, Head(s)))

RECURSIVE TrimEach(_)
\* .map((part) => part.trim()).filter(Boolean)
TrimEach(parts) ==
    IF parts = <<>> THEN <<>>
    ELSE IF Trim(Head(parts)) = <<>> THEN TrimEach(Tail(parts))
         ELSE <<Trim(Head(parts))>> \o TrimEach(Tail(parts))

RECURSIVE PairUp(_)
\* sentences.slice(i, i + 2).join(" ") for i = 0, 2, ...
PairUp(sentences) ==
    IF sentences = <<>> THEN <<>>
    ELSE IF Len(sentences) = 1 THEN <<sentences[1]>>
         ELSE <<sentences[1] \o <<" ">> \o sentences[2]>> \o PairUp(Tail(Tail(sentences)))

IsNoCr(ch) == ch # "\r"

\* an alternative that splits at blank lines only
splitIntoParagraphs(text) ==
    LET normalized == Trim(SelectSeq(text, IsNoCr))
        byParagraph == TrimEach(SplitParagraphs(normalized, <<>>))
    IN IF normalized = <<>> THEN <<>>
       ELSE IF Len(byParagraph) > 1 THEN byParagraph
       ELSE <<normalized>>

splitIntoBubbles(text) ==
    LET normalized == Trim(SelectSeq(text, IsNoCr))
        byParagraph == TrimEach(SplitParagraphs(normalized, <<>>))
        sentences == TrimEach(SplitSentences(normalized, <<>>))
    IN IF normalized = <<>> THEN <<>>
       ELSE IF Len(byParagraph) > 1 THEN byParagraph
       ELSE IF Len(sentences) <= 2 THEN <<normalized>>
       ELSE PairUp(sentences)

STREAM_CHUNK_SIZE == 20

\* chunkText(text, STREAM_CHUNK_SIZE): the number of chunks
ChunkCount(text) == (Len(text) + STREAM_CHUNK_SIZE - 1) \div STREAM_CHUNK_SIZE

FallbackText == <<"D", "o", "n", "e", ".">>

----------------------------------------------------------------------------
(* The turn orchestrator (runAssistantTurn) and the chat stream route.      *)
(* T = [turn, toolCalls, messages, sink] is what a step works on: the       *)
(* turn's own position and locals, the tool_calls and messages tables, and  *)
(* the stream controller with the events enqueued so far. sink.state is     *)
(* "none" for a turn run without callbacks (channels, trigger runs),        *)
(* "readable", "cancelled" once the client is gone, or "closed".            *)

LoopLimit == 8

TCur == [turn |-> turn, toolCalls |-> toolCalls, messages |-> messages, sink |-> sink]

TCommit(T) ==
    /\ turn' = T.turn
    /\ toolCalls' = T.toolCalls
    /\ messages' = T.messages
    /\ sink' = T.sink

Ev(type, id, ok) == [type |-> type, id |-> id, ok |-> ok]

\* controller.enqueue throws once the stream is no longer readable; a turn
\* without callbacks skips the call
Throws(T) == T.sink.state \in {"cancelled", "closed"}

Enqueue(T, ev) ==
    IF T.sink.state = "readable" THEN [T EXCEPT !.sink.events = Append(@, ev)] ELSE T

\* what controller.enqueue throws on a stream that is not readable, and what a
\* failed LLM call throws
InvalidState == "Invalid state"
UpstreamError == "upstream"

\* the route's catch block: enqueue the error event, [DONE], close; without a
\* route the rejection goes to the caller
Abort(T, error) ==
    LET T1 == [T EXCEPT !.turn.pc = "failed", !.turn.error = error]
    IN IF T.sink.state = "readable"
       THEN [Enqueue(Enqueue(T1, Ev("error", 0, FALSE)), Ev("[DONE]", 0, FALSE))
                EXCEPT !.sink.state = "closed"]
       ELSE T1

\* the route after runAssistantTurn returned: assistant_done, [DONE], close
Return(T) ==
    IF Throws(T) THEN Abort(T, InvalidState)
    ELSE LET T1 == [T EXCEPT !.turn.pc = "done"]
         IN IF T.sink.state = "readable"
            THEN [Enqueue(Enqueue(T1, Ev("assistant_done", 0, TRUE)), Ev("[DONE]", 0, FALSE))
                     EXCEPT !.sink.state = "closed"]
            ELSE T1

addMessage(T, role, content) ==
    [T EXCEPT !.messages = Append(@, [role |-> role, content |-> content])]

\* an alternative that announces bubble k before its message is stored
EmitBubbleUnstored(T, k) ==
    LET id == Len(T.messages) + 1
        T2 == Enqueue(Enqueue(T, Ev("assistant_bubble_start", id, TRUE)),
                      Ev("token", id, TRUE))
    IN IF Throws(T) THEN Abort(T, InvalidState)
       ELSE [T2 EXCEPT !.turn.pc = "token", !.turn.bi = k, !.turn.cur = id,
                       !.turn.messageIds = Append(@, id),
                       !.turn.chunksLeft = ChunkCount(T.turn.bubbles[k]) - 1]

\* addMessage of bubble k, then emitBubbleTokens up to its first sleep
EmitBubble(T, k) ==
    LET T0 == addMessage(T, "assistant", T.turn.bubbles[k])
        id == Len(T0.messages)
        T1 == [T0 EXCEPT !.turn.messageIds = Append(@, id)]
        chunks == ChunkCount(T.turn.bubbles[k])
        T2 == Enqueue(Enqueue(T1, Ev("assistant_bubble_start", id, TRUE)),
                      Ev("token", id, TRUE))
    IN IF Throws(T1) THEN Abort(T1, InvalidState)
       ELSE [T2 EXCEPT !.turn.pc = "token", !.turn.bi = k, !.turn.cur = id,
                       !.turn.chunksLeft = chunks - 1]

\* an alternative without the fallback bubble
BubblePhaseNoFallback(T) ==
    LET split == splitIntoBubbles(Trim(T.turn.text))
    IN IF split = <<>> THEN Return(T)
       ELSE EmitBubble([T EXCEPT !.turn.bubbles = split], 1)

\* lines 304-319 up to the first sleep
BubblePhase(T) ==
    LET split == splitIntoBubbles(Trim(T.turn.text))
        bubbles == IF split = <<>> THEN <<FallbackText>> ELSE split
    IN EmitBubble([T EXCEPT !.turn.bubbles = bubbles], 1)

\* addToolCall and onToolCallStarted, then runTool is awaited
BeginToolCall(T, rest) ==
    LET T1 == [T EXCEPT !.toolCalls = Append(@, [status |-> "running", writes |-> 0])]
        id == Len(T1.toolCalls)
    IN IF Throws(T1) THEN Abort(T1, InvalidState)
       ELSE [Enqueue(T1, Ev("tool_call_started", id, TRUE))
                EXCEPT !.turn.pc = "tool", !.turn.cur = id, !.turn.pendingCalls = rest]

completeToolCall(T, id, ok) ==
    [T EXCEPT !.toolCalls[id] = [status |-> IF ok THEN "success" ELSE "error",
                                 writes |-> @.writes + 1]]

\* the end of a loop iteration: i += 1, the loop test, the next LLM call
NextRound(T) ==
    IF T.turn.i + 1 < LoopLimit
    THEN [T EXCEPT !.turn.pc = "llm", !.turn.i = @ + 1, !.turn.llmCalls = @ + 1]
    ELSE BubblePhase([T EXCEPT !.turn.i = @ + 1])

\* after a tool call's messages were pushed: the next call of the round
NextCall(T) ==
    IF T.turn.pendingCalls > 0 THEN BeginToolCall(T, T.turn.pendingCalls - 1)
    ELSE NextRound(T)

\* the catch block of the tool loop (lines 277-300)
CatchBlock(T) ==
    LET T1 == completeToolCall(T, T.turn.cur, FALSE)
    IN IF Throws(T1) THEN Abort(T1, InvalidState)
       ELSE NextCall(Enqueue(Enqueue(T1, Ev("tool_call_output", T.turn.cur, FALSE)),
                             Ev("tool_call_finished", T.turn.cur, FALSE)))

\* an alternative try block that announces the output and not the end
TryBlockUnfinished(T) ==
    LET T1 == completeToolCall(T, T.turn.cur, TRUE)
    IN IF Throws(T1) THEN CatchBlock(T1)
       ELSE NextCall(Enqueue(T1, Ev("tool_call_output", T.turn.cur, TRUE)))

\* the try block after runTool returned (lines 255-276)
TryBlock(T) ==
    LET T1 == completeToolCall(T, T.turn.cur, TRUE)
    IN IF Throws(T1) THEN CatchBlock(T1)
       ELSE NextCall(Enqueue(Enqueue(T1, Ev("tool_call_output", T.turn.cur, TRUE)),
                             Ev("tool_call_finished", T.turn.cur, TRUE)))

\* what the LLM may answer: no message, or a message with a content and calls
ToolRoundContents == {<<>>, <<"a", ".">>}
FinalContents ==
    {<<>>, <<"a">>, <<"a", "\n", "\n", "b">>, <<ThinkOpen, "a", ThinkClose>>,
     [n \in 1..(STREAM_CHUNK_SIZE + 1) |-> "a"]}
LLMResponses ==
    {[hasMessage |-> FALSE, content |-> <<>>, calls |-> 0]}
    \cup {[hasMessage |-> TRUE, content |-> t, calls |-> 0] : t \in FinalContents}
    \cup {[hasMessage |-> TRUE, content |-> t, calls |-> n] :
            t \in ToolRoundContents, n \in 1..MaxCallsPerRound}

\* POST /api/chat/stream with a valid message, or a caller without callbacks:
\* runAssistantTurn up to its first LLM call
StartTurn(viaStream) ==
    /\ turn.pc = "idle"
    /\ LET T0 == [TCur EXCEPT !.sink.state = IF viaStream THEN "readable" ELSE "none"]
           T1 == addMessage(Enqueue(T0, Ev("conversation", 0, TRUE)), "user", <<"m">>)
       IN TCommit([T1 EXCEPT !.turn.pc = "llm", !.turn.llmCalls = 1])
    /\ UNCHANGED <<shellVars, libVars>>

\* client.chat.completions.create resolves
LLMReturns(resp) ==
    /\ turn.pc = "llm"
    /\ resp.calls > 0 => Len(toolCalls) + resp.calls <= MaxToolCalls
    /\ resp.content # <<>> /\ resp.calls > 0 => Len(turn.text) < MaxText
    /\ LET assistantText == sanitizeAssistantText(resp.content)
           T1 == IF assistantText # <<>>
                 THEN [TCur EXCEPT !.turn.text = @ \o assistantText \o <<"\n">>]
                 ELSE TCur
       IN IF ~resp.hasMessage THEN TCommit(BubblePhase(TCur))
          ELSE IF resp.calls = 0 THEN TCommit(BubblePhase(T1))
          ELSE TCommit(BeginToolCall(T1, resp.calls - 1))
    /\ UNCHANGED <<shellVars, libVars>>

\* client.chat.completions.create rejects
LLMThrows ==
    /\ turn.pc = "llm"
    /\ TCommit(Abort(TCur, UpstreamError))
    /\ UNCHANGED <<shellVars, libVars>>

\* runTool resolves
ToolReturns ==
    /\ turn.pc = "tool"
    /\ TCommit(TryBlock(TCur))
    /\ UNCHANGED <<shellVars, libVars>>

\* runTool rejects
ToolThrows ==
    /\ turn.pc = "tool"
    /\ TCommit(CatchBlock(TCur))
    /\ UNCHANGED <<shellVars, libVars>>

\* the sleep after a token ends: the next chunk, or the end of the bubble
TokenSlept ==
    /\ turn.pc = "token"
    /\ IF turn.chunksLeft > 0
       THEN IF Throws(TCur) THEN TCommit(Abort(TCur, InvalidState))
            ELSE TCommit([Enqueue(TCur, Ev("token", turn.cur, TRUE))
                             EXCEPT !.turn.chunksLeft = @ - 1])
       ELSE IF turn.bi < Len(turn.bubbles)
            THEN TCommit([TCur EXCEPT !.turn.pc = "pause"])
            ELSE TCommit(Return(TCur))
    /\ UNCHANGED <<shellVars, libVars>>

\* the sleep between two bubbles ends
PauseSlept ==
    /\ turn.pc = "pause"
    /\ TCommit(EmitBubble(TCur, turn.bi + 1))
    /\ UNCHANGED <<shellVars, libVars>>

\* the client goes away and the response stream is cancelled
ClientDisconnect ==
    /\ sink.state = "readable"
    /\ turn.pc \notin {"idle", "done", "failed"}
    /\ sink' = [sink EXCEPT !.state = "cancelled"]
    /\ UNCHANGED <<turn, toolCalls, messages>>
    /\ UNCHANGED <<shellVars, libVars>>

ShellIdle == ShellInit(0, 0, 0, 0)

TurnInit == ShellIdle /\ TurnIdle /\ LibIdle

TurnNext ==
    \/ \E viaStream \in BOOLEAN : StartTurn(viaStream)
    \/ \E resp \in LLMResponses : LLMReturns(resp)
    \/ LLMThrows
    \/ ToolReturns
    \/ ToolThrows
    \/ TokenSlept
    \/ PauseSlept
    \/ ClientDisconnect

TurnSpec == TurnInit /\ [][TurnNext]_vars

\* every LLM call and tool dispatch returns, and the timers fire
TurnFairness ==
    /\ WF_vars(\E resp \in LLMResponses : LLMReturns(resp))
    /\ WF_vars(ToolReturns \/ ToolThrows)
    /\ WF_vars(TokenSlept)
    /\ WF_vars(PauseSlept)

TurnFairSpec == TurnSpec /\ TurnFairness

----------------------------------------------------------------------------
(* Properties of the turn *)

ToolEventTypes == {"tool_call_started", "tool_call_output", "tool_call_finished"}
BubbleEventTypes == {"assistant_bubble_start", "token"}

\* the events of the given types that carry `id`, in the order of delivery
EventsOf(types, id) ==
    SelectSeq(sink.events, LAMBDA e : e.type \in types /\ e.id = id)

\* the position of the first event of a type (0: none)
FirstIndex(type) ==
    LET hits == {k \in 1..Len(sink.events) : sink.events[k].type = type}
    IN IF hits = {} THEN 0 ELSE CHOOSE k \in hits : \A j \in hits : k <= j

\* C2: each dispatched tool call has a ToolCallRecord created running before
\* the tool runs; the record moves to success or error exactly once and is
\* never written again; it ends error iff the tool threw, whatever happens in
\* the steps after the tool's return (serialisation, callbacks, store writes).
C2_ToolRecordLifecycle ==
    [][/\ \A id \in DOMAIN toolCalls' :
            /\ toolCalls'[id].writes <= 1
            /\ id \notin DOMAIN toolCalls => toolCalls'[id].status = "running"
            /\ (id \in DOMAIN toolCalls /\ toolCalls[id].status # "running")
                    => toolCalls'[id] = toolCalls[id]
       /\ ToolReturns => toolCalls'[turn.cur].status = "success"
       /\ ToolThrows => toolCalls'[turn.cur].status = "error"]_vars

\* a turn ended with one record success and another error, each written once
C2_Witness ==
    /\ turn.pc = "done"
    /\ \E a, b \in DOMAIN toolCalls :
        /\ toolCalls[a] = [status |-> "success", writes |-> 1]
        /\ toolCalls[b] = [status |-> "error", writes |-> 1]

InLoop(t) == t.pc \in {"llm", "tool"}
ReachedBubbles(t) == t.bubbles # <<>>

\* C8: a turn makes at most 8 chat-completion calls, and, provided every LLM
\* call and tool dispatch returns, it always leaves the loop and reaches the
\* bubble phase, also when all 8 rounds return tool calls.
C8_LoopEndsInBubbles ==
    /\ [](turn.llmCalls <= 8)
    /\ [][InLoop(turn) =>
            \/ InLoop(turn')
            \/ ReachedBubbles(turn')
            \/ turn'.error = UpstreamError]_vars
    /\ (InLoop(turn) ~> (ReachedBubbles(turn) \/ turn.error = UpstreamError))

\* all 8 rounds returned tool calls and the turn went on to its bubbles
C8_Witness ==
    /\ turn.llmCalls = 8
    /\ turn.i = 8
    /\ Len(toolCalls) >= 8
    /\ ReachedBubbles(turn)
    /\ turn.pc = "done"

IsToolPrefix(es) ==
    \A k \in 1..Len(es) :
        /\ k = 1 <=> es[k].type = "tool_call_started"
        /\ es[k].type = "tool_call_finished" => k = Len(es)

IsToolComplete(es) ==
    Len(es) >= 2 /\ IsToolPrefix(es) /\ es[Len(es)].type = "tool_call_finished"

\* the turn has gone past tool call `id`
PastToolCall(id) ==
    \/ id < Len(toolCalls)
    \/ turn.pc \notin {"tool", "failed"}

BubbleIds == {sink.events[k].id : k \in {j \in 1..Len(sink.events) :
                                            sink.events[j].type \in BubbleEventTypes}}

\* C10: each bubble's assistant message is persisted before its bubble_start
\* is emitted and the bubble id is that message's id; per bubble id there is
\* exactly one bubble_start, followed by one or more tokens for that id; all
\* tool events precede the first bubble_start; every bubble event precedes
\* assistant_done.
C10_BubbleEventOrder ==
    /\ \A id \in BubbleIds :
        LET es == EventsOf(BubbleEventTypes, id)
        IN /\ id \in DOMAIN messages
           /\ messages[id].role = "assistant"
           /\ Len(es) >= 2
           /\ \A k \in 1..Len(es) : k = 1 <=> es[k].type = "assistant_bubble_start"
    /\ \A j, k \in 1..Len(sink.events) :
        j < k =>
            /\ ~( /\ sink.events[j].type = "assistant_bubble_start"
                  /\ sink.events[k].type \in ToolEventTypes )
            /\ ~( /\ sink.events[j].type = "assistant_done"
                  /\ sink.events[k].type \in BubbleEventTypes )

\* a streamed turn with a tool call ended after two bubbles
C10_Witness ==
    /\ turn.pc = "done"
    /\ FirstIndex("assistant_done") # 0
    /\ FirstIndex("tool_call_finished") # 0
    /\ Cardinality(BubbleIds) = 2

AssistantMessages(ms) == SelectSeq(ms, LAMBDA m : m.role = "assistant")

CountType(es, type) == Cardinality({k \in 1..Len(es) : es[k].type = type})

\* the events end with one error event and then [DONE]
EndsWithError(es) ==
    /\ Len(es) >= 2
    /\ es[Len(es) - 1].type = "error"
    /\ es[Len(es)].type = "[DONE]"
    /\ CountType(es, "error") = 1

\* C11: when an LLM call throws in any round the turn aborts with the
\* exception's message: no assistant message is persisted for the turn, no
\* assistant_done is emitted, the stream of a streamed turn ends with one
\* error event followed by [DONE], and the messages and tool-call records
\* persisted before the failure remain as they were.
C11_LLMFailureAborts ==
    [][LLMThrows =>
        /\ turn'.pc = "failed"
        /\ turn'.error = UpstreamError
        /\ messages' = messages
        /\ toolCalls' = toolCalls
        /\ AssistantMessages(messages') = <<>>
        /\ CountType(sink'.events, "assistant_done") = 0
        /\ sink.state # "none" => EndsWithError(sink'.events)]_vars

\* the LLM call of a later round threw after the client had gone away
C11_Witness ==
    /\ turn.error = UpstreamError
    /\ sink.state = "cancelled"
    /\ Len(toolCalls) >= 1
    /\ turn.i >= 1

\* C17: a turn that completes has persisted at least one assistant message,
\* one per returned bubble and in the same order, so messageIds and bubbles
\* have the same length, at least 1; when the loop accumulated no text (no
\* assistant message, empty content, or 8 rounds of tool calls without
\* content) there is exactly one, with the content "Done.", emitted as one
\* bubble.
C17_AtLeastOneBubble ==
    turn.pc = "done" =>
        LET stored == AssistantMessages(messages)
        IN /\ Len(stored) >= 1
           /\ Len(turn.messageIds) = Len(turn.bubbles)
           /\ Len(turn.bubbles) = Len(stored)
           /\ \A k \in 1..Len(stored) :
                /\ stored[k].content = turn.bubbles[k]
                /\ messages[turn.messageIds[k]] = stored[k]
           /\ Trim(turn.text) = <<>> =>
                /\ stored = <<[role |-> "assistant", content |-> FallbackText]>>
                /\ turn.bubbles = <<FallbackText>>
                /\ sink.state # "none" =>
                        CountType(sink.events, "assistant_bubble_start") = 1

\* a streamed turn completed after 8 rounds of tool calls without any text
C17_Witness ==
    /\ turn.pc = "done"
    /\ turn.llmCalls = LoopLimit
    /\ turn.text = <<>>
    /\ Len(toolCalls) >= LoopLimit
    /\ sink.state = "closed"
    /\ AssistantMessages(messages) = <<[role |-> "assistant", content |-> FallbackText]>>

----------------------------------------------------------------------------
(* Trigger runs (lib/jobs.ts): one turn without callbacks per run, and the  *)
(* row of the trigger_runs table that records it.                           *)

MaxRuns == 2         \* trigger runs in a behaviour

\* <final_result> and </final_result> are one unit each; for the /i flag each
\* has a second spelling
FinalOpenTags == {"<final_result>", "<FINAL_RESULT>"}
FinalCloseTags == {"</final_result>", "</Final_Result>"}

\* the least index from `from` on whose unit is in `tags` (0: none)
IndexOfTag(s, tags, from) ==
    LET hits == {k \in from..Len(s) : s[k] \in tags}
    IN IF hits = {} THEN 0 ELSE CHOOSE k \in hits : \A j \in hits : k <= j

RECURSIVE CollapseSpace(_)
\* replace(/\s+/g, " ")
CollapseSpace(s) ==
    IF s = <<>> THEN <<>>
    ELSE IF IsSpace(Head(s)) THEN <<" ">> \o CollapseSpace(TrimLeft(s))
         ELSE <<Head(s)>> \o CollapseSpace(Tail(s))

\* an alternative that captures up to the last closing tag
extractFinalResultGreedy(text) ==
    LET open == IndexOfTag(text, FinalOpenTags, 1)
        closes == {k \in (open + 1)..Len(text) : text[k] \in FinalCloseTags}
        close == CHOOSE k \in closes : \A j \in closes : j <= k
        normalized == Trim(CollapseSpace(SubSeq(text, open + 1, close - 1)))
    IN IF open = 0 \/ closes = {} THEN None
       ELSE IF normalized = <<>> THEN None ELSE Some(normalized)

extractFinalResult(text) ==
    LET open == IndexOfTag(text, FinalOpenTags, 1)
        close == IndexOfTag(text, FinalCloseTags, open + 1)
        normalized == Trim(CollapseSpace(SubSeq(text, open + 1, close - 1)))
    IN IF open = 0 \/ close = 0 THEN None
       ELSE IF normalized = <<>> THEN None ELSE Some(normalized)

RECURSIVE JoinBubbles(_)
\* bubbles.join("\n\n")
JoinBubbles(bubbles) ==
    IF bubbles = <<>> THEN <<>>
    ELSE IF Len(bubbles) = 1 THEN bubbles[1]
         ELSE bubbles[1] \o <<"\n", "\n">> \o JoinBubbles(Tail(bubbles))

\* createTriggerRun's row
NewRun == [status |-> "running", conversationId |-> None, finalResult |-> None,
           error |-> None]

completeTriggerRun(run, ok, finalResult, error) ==
    IF ok THEN [run EXCEPT !.status = "success", !.finalResult = finalResult,
                           !.error = None]
    ELSE [run EXCEPT !.status = "error", !.finalResult = None, !.error = Some(error)]

setTriggerRunConversationId(run, conversationId) ==
    [run EXCEPT !.conversationId = Some(conversationId)]

\* what triggerConversationRun returns, or throws
TriggerReturn(run, conversationId, finalResult) ==
    [kind |-> "trigger", run |-> run, conversationId |-> conversationId,
     finalResult |-> finalResult, threw |-> None]
TriggerThrow(error) ==
    [kind |-> "trigger", run |-> NewRun, conversationId |-> 0, finalResult |-> None,
     threw |-> Some(error)]

\* triggerConversationRun up to the first LLM call of its turn: the run row,
\* then runAssistantTurn without callbacks on a new conversation, which has
\* no messages and no tool calls yet
TriggerConversationRun ==
    /\ turn.pc = "idle"
    /\ Len(runs) < MaxRuns
    /\ runs' = Append(runs, NewRun)
    /\ uuids' = uuids + 1
    /\ LET T0 == [turn |-> NoTurn, toolCalls |-> <<>>, messages |-> <<>>, sink |-> NoSink]
           T1 == addMessage(T0, "user", <<"m">>)
       IN TCommit([T1 EXCEPT !.turn.pc = "llm", !.turn.llmCalls = 1,
                             !.turn.conversationId = uuids + 1])
    /\ UNCHANGED <<shellVars, conversations, messageRows, turns, channelLinks, toolVars, channelVars, workingMessages>>

\* an alternative catch block that records the failure and does not re-raise
TriggerTurnThrewSwallowed ==
    /\ turn.pc = "failed"
    /\ runs' = [runs EXCEPT ![Len(runs)] = completeTriggerRun(@, FALSE, None, turn.error)]
    /\ ret' = TriggerReturn(runs'[Len(runs)], 0, None)
    /\ turn' = NoTurn
    /\ UNCHANGED <<clock, shellRest, toolCalls, messages, sink>>
    /\ UNCHANGED <<storeVars, toolVars, channelVars, workingMessages>>

\* the turn returned: lines 59-83
TriggerTurnReturned ==
    /\ turn.pc = "done"
    /\ LET finalResult == extractFinalResult(JoinBubbles(turn.bubbles))
           run == completeTriggerRun(
                      setTriggerRunConversationId(runs[Len(runs)], turn.conversationId),
                      TRUE, finalResult, "none")
       IN /\ runs' = [runs EXCEPT ![Len(runs)] = run]
          /\ ret' = TriggerReturn(run, turn.conversationId, finalResult)
    /\ turn' = NoTurn
    /\ UNCHANGED <<clock, shellRest, toolCalls, messages, sink>>
    /\ UNCHANGED <<storeVars, toolVars, channelVars, workingMessages>>

\* the turn threw: the catch block, lines 84-90
TriggerTurnThrew ==
    /\ turn.pc = "failed"
    /\ runs' = [runs EXCEPT ![Len(runs)] = completeTriggerRun(@, FALSE, None, turn.error)]
    /\ ret' = TriggerThrow(turn.error)
    /\ turn' = NoTurn
    /\ UNCHANGED <<clock, shellRest, toolCalls, messages, sink>>
    /\ UNCHANGED <<storeVars, toolVars, channelVars, workingMessages>>

\* what the LLM answers in a trigger run
TriggerContents ==
    {<<>>, <<"a">>,
     <<"<final_result>", "a", "</final_result>">>,
     <<"<final_result>", " ", "</final_result>">>,
     <<"<FINAL_RESULT>", "a", ".", " ", "\n", "b", ".", " ", "c", "</Final_Result>", "d",
       "</final_result>">>,
     <<"a", "\n", "\n", "<final_result>", "<final_result>", "</final_result>">>,
     <<"a", "</final_result>", "<final_result>">>}
TriggerResponses ==
    {[hasMessage |-> TRUE, content |-> t, calls |-> 0] : t \in TriggerContents}
    \cup {[hasMessage |-> TRUE, content |-> <<"<final_result>">>, calls |-> 1],
          [hasMessage |-> TRUE, content |-> <<>>, calls |-> 1]}

TriggerInit == TurnInit

TriggerNext ==
    \/ TriggerConversationRun
    \/ \E resp \in TriggerResponses : LLMReturns(resp)
    \/ LLMThrows
    \/ ToolReturns
    \/ TokenSlept
    \/ PauseSlept
    \/ TriggerTurnReturned
    \/ TriggerTurnThrew

TriggerSpec == TriggerInit /\ [][TriggerNext]_vars

----------------------------------------------------------------------------
(* Properties of trigger runs *)

LastRun(rs) == rs[Len(rs)]

\* the step in which triggerConversationRun goes on after its turn ended
AfterTurn(pc) == turn.pc = pc /\ turn'.pc = "idle"

TaggedAt(text, i, j) ==
    /\ i < j
    /\ text[i] \in FinalOpenTags
    /\ text[j] \in FinalCloseTags
    /\ \A k \in 1..(i - 1) : text[k] \notin FinalOpenTags
    /\ \A k \in (i + 1)..(j - 1) : text[k] \notin FinalCloseTags

----------------------------------------------------------------------------
(* The store (lib/store.ts): conversations and messages, and the turns that *)
(* run against it. S = [uuids, conversations, messageRows] is what a store  *)
(* function works on; ids are the values of randomUUID(), numbered in the   *)
(* order they were handed out; 0 is a string that is no such value.         *)

StoreTurns == 2      \* turns in flight
MaxUuids == 8        \* values randomUUID() hands out
MaxBubbles == 2      \* bubbles of one turn
MaxListed == 3       \* messages of a conversation that is listed
StoreClock == 3      \* the clock stops here (store specification)

TicksPerSecond == 2  \* datetime() drops what is below a second

DefaultTitle == "New chat"
Models == {"m1", "m2"}

StoreCur == [uuids |-> uuids, conversations |-> conversations, messageRows |-> messageRows,
             channelLinks |-> channelLinks]

StoreCommit(S) ==
    /\ uuids' = S.uuids
    /\ conversations' = S.conversations
    /\ messageRows' = S.messageRows
    /\ channelLinks' = S.channelLinks

\* randomUUID(): a value never handed out before
randomUUID(S) == S.uuids + 1

ConversationIds(S) == {c.id : c \in S.conversations}

\* getConversation: the row with this id, if any
getConversation(S, id) ==
    LET hits == {c \in S.conversations : c.id = id}
    IN IF hits = {} THEN None ELSE Some(CHOOSE c \in hits : TRUE)

\* the store afterwards, and what the function returned
createConversation(S, model, title) ==
    LET row == [id |-> randomUUID(S), title |-> title, model |-> model]
    IN [store |-> [S EXCEPT !.uuids = @ + 1, !.conversations = @ \cup {row}],
        conversation |-> row]

\* an alternative that creates the conversation under the id it was asked for
upsertConversationKeepId(S, id, model) ==
    LET row == [id |-> Get(id), title |-> DefaultTitle, model |-> model]
    IN IF ~IsSome(id) \/ Get(id) = 0 THEN createConversation(S, model, DefaultTitle)
       ELSE IF ~IsSome(getConversation(S, Get(id)))
            THEN [store |-> [S EXCEPT !.conversations = @ \cup {row}], conversation |-> row]
            ELSE createConversation(S, model, DefaultTitle)

\* id: None for undefined, Some(0) for a string that is no id (also ""),
\* Some(n) for a value of randomUUID
upsertConversation(S, id, model) ==
    IF ~IsSome(id) THEN createConversation(S, model, DefaultTitle)
    ELSE LET existing == getConversation(S, Get(id))
             updated == [Get(existing) EXCEPT !.model = model]
         IN IF ~IsSome(existing) THEN createConversation(S, model, DefaultTitle)
            ELSE [store |-> [S EXCEPT !.conversations =
                                (@ \ {Get(existing)}) \cup {updated}],
                  conversation |-> updated]

setConversationTitleIfDefault(S, id, title) ==
    [S EXCEPT !.conversations =
        {IF c.id = id /\ c.title = DefaultTitle THEN [c EXCEPT !.title = title] ELSE c :
            c \in @}]

\* addMessage on the store: the row is appended with createdAt = now().
\* `turn` is no column: it names the turn that wrote the row, by the id of
\* the turn's user message, for the properties
addMessageRow(S, conversationId, role, bubbleGroupId, now, turnId) ==
    [S EXCEPT !.uuids = @ + 1,
              !.messageRows = Append(@, [id |-> randomUUID(S),
                                         conversationId |-> conversationId,
                                         role |-> role,
                                         bubbleGroupId |-> bubbleGroupId,
                                         createdAt |-> now,
                                         turn |-> turnId])]

\* an alternative deletion that leaves the links of the conversation
deleteConversationOnly(S, id) ==
    [S EXCEPT !.messageRows = SelectSeq(@, LAMBDA m : m.conversationId # id),
              !.conversations = {c \in @ : c.id # id}]

deleteConversation(S, id) ==
    [S EXCEPT !.messageRows = SelectSeq(@, LAMBDA m : m.conversationId # id),
              !.channelLinks = {l \in @ : l.conversationId # id},
              !.conversations = {c \in @ : c.id # id}]

\* datetime(created_at): the time in whole seconds
datetime(createdAt) == createdAt \div TicksPerSecond

\* the rows of a conversation in the order they were appended
RowsOf(S, conversationId) ==
    SelectSeq(S.messageRows, LAMBDA m : m.conversationId = conversationId)

RECURSIVE SortedOrders(_, _)
\* the orders of the rows with index in `left` that are ascending in
\* datetime(created_at): a row with the least key comes first
SortedOrders(rows, left) ==
    IF left = {} THEN {<<>>}
    ELSE UNION {{<<rows[k]>> \o rest : rest \in SortedOrders(rows, left \ {k})} :
                    k \in {j \in left : \A i \in left :
                                datetime(rows[j].createdAt) <= datetime(rows[i].createdAt)}}

\* listMessages: ORDER BY datetime(created_at) ASC; SQL leaves the order of
\* rows with equal keys open, so every such order is a possible result
listMessages(S, conversationId) ==
    SortedOrders(RowsOf(S, conversationId), 1..Len(RowsOf(S, conversationId)))

StoreTurnIds == DOMAIN turns
IdleTurn == [pc |-> "idle", conversationId |-> 0, bubbleGroupId |-> 0, left |-> 0,
             turnId |-> 0]

\* ids a client can send: none, a string that is no id, or any id handed out
ConversationIdArgs == {None} \cup {Some(n) : n \in 0..uuids}

\* a new turn takes the lowest idle frame
FreeTurn(t) ==
    /\ turns[t].pc = "idle"
    /\ \A u \in 1..(t - 1) : turns[u].pc # "idle"

\* the bubble group id of a turn: randomUUID() (assistant.ts:305)
BubbleGroupOfConversation(S, conversationId) == conversationId
bubbleGroupId(S, conversationId) == randomUUID(S)

\* runAssistantTurn, lines 189-203: the conversation, the user message, the
\* title; then the loop awaits the LLM
StoreTurnStart(t, id, model) ==
    /\ FreeTurn(t)
    /\ LET up == upsertConversation(StoreCur, id, model)
           S1 == addMessageRow(up.store, up.conversation.id, "user", None, clock,
                               randomUUID(up.store))
       IN /\ S1.uuids <= MaxUuids
          /\ StoreCommit(setConversationTitleIfDefault(S1, up.conversation.id, "m"))
          /\ turns' = [turns EXCEPT ![t] = [IdleTurn EXCEPT !.pc = "loop",
                                    !.conversationId = up.conversation.id,
                                    !.turnId = randomUUID(up.store)]]
    /\ ret' = NoRet
    /\ UNCHANGED <<clock, shellRest, turnVars, runs, workingMessages, toolVars, channelVars>>

\* lines 304-317: the loop ended with n bubbles; the group id, the first
\* bubble's message, then emitBubbleTokens sleeps
StoreTurnBubbles(t, n) ==
    /\ turns[t].pc = "loop"
    /\ uuids + 1 + n <= MaxUuids
    /\ LET group == bubbleGroupId(StoreCur, turns[t].conversationId)
           S1 == [StoreCur EXCEPT !.uuids = Max(@, group)]
       IN /\ StoreCommit(addMessageRow(S1, turns[t].conversationId, "assistant",
                                       Some(group), clock, turns[t].turnId))
          /\ turns' = [turns EXCEPT ![t] =
                        IF n = 1 THEN IdleTurn
                        ELSE [@ EXCEPT !.pc = "bubbles", !.bubbleGroupId = group,
                                       !.left = n - 1]]
    /\ ret' = NoRet
    /\ UNCHANGED <<clock, shellRest, turnVars, runs, workingMessages, toolVars, channelVars>>

\* the sleeps after a bubble ended: the next bubble's message
StoreTurnNextBubble(t) ==
    /\ turns[t].pc = "bubbles"
    /\ StoreCommit(addMessageRow(StoreCur, turns[t].conversationId, "assistant",
                                 Some(turns[t].bubbleGroupId), clock, turns[t].turnId))
    /\ turns' = [turns EXCEPT ![t] =
                    IF @.left = 1 THEN IdleTurn ELSE [@ EXCEPT !.left = @ - 1]]
    /\ ret' = NoRet
    /\ UNCHANGED <<clock, shellRest, turnVars, runs, workingMessages, toolVars, channelVars>>

\* GET /api/conversations/[id]
ListMessages(conversationId) ==
    /\ Len(RowsOf(StoreCur, conversationId)) <= MaxListed
    /\ \E rows \in listMessages(StoreCur, conversationId) :
            ret' = [kind |-> "listMessages", conversationId |-> conversationId,
                    rows |-> rows]
    /\ UNCHANGED <<clock, shellRest, turnVars, libVars>>

DeleteConversation(conversationId) ==
    /\ \A t \in StoreTurnIds : turns[t].conversationId # conversationId
    /\ StoreCommit(deleteConversation(StoreCur, conversationId))
    /\ ret' = NoRet
    /\ UNCHANGED <<clock, shellRest, turnVars, turns, runs, workingMessages, toolVars, channelVars>>

StoreTick ==
    /\ clock < StoreClock
    /\ clock' = clock + 1
    /\ ret' = NoRet
    /\ UNCHANGED <<shellRest, turnVars, libVars>>

StoreInit ==
    /\ ShellIdle
    /\ TurnIdle
    /\ uuids = 0
    /\ conversations = {}
    /\ messageRows = <<>>
    /\ turns = [t \in 1..StoreTurns |-> IdleTurn]
    /\ channelLinks = {}
    /\ JobsIdle
    /\ ToolsIdle
    /\ ChannelsIdle

StoreNext ==
    \/ \E t \in StoreTurnIds, model \in Models,
          id \in {None, Some(0)} \cup {Some(c) : c \in ConversationIds(StoreCur)} :
            StoreTurnStart(t, id, model)
    \/ \E t \in StoreTurnIds, n \in 1..MaxBubbles : StoreTurnBubbles(t, n)
    \/ \E t \in StoreTurnIds : StoreTurnNextBubble(t)
    \/ \E c \in ConversationIds(StoreCur) : ListMessages(c)
    \/ \E c \in ConversationIds(StoreCur) : DeleteConversation(c)
    \/ StoreTick

StoreSpec == StoreInit /\ [][StoreNext]_vars

----------------------------------------------------------------------------
(* Properties of the store *)

\* C14: for any sequence of addMessage calls on one conversation,
\* listMessages returns the messages in the order they were appended, also
\* when several messages are appended within the same second (as the bubbles
\* of one turn are).
C14_ListInAppendOrder ==
    [][\A c \in ConversationIds(StoreCur) :
            ListMessages(c) => ret'.rows = RowsOf(StoreCur, c)]_vars

\* two bubbles of one turn, stored within one second, were listed the later
\* one first
C14_Witness ==
    /\ "rows" \in DOMAIN ret
    /\ ret.rows # RowsOf(StoreCur, ret.conversationId)
    /\ \E a, b \in 1..Len(ret.rows) :
        /\ a < b
        /\ ret.rows[a].role = "assistant"
        /\ ret.rows[a].turn = ret.rows[b].turn
        /\ ret.rows[a].bubbleGroupId = ret.rows[b].bubbleGroupId
        /\ ret.rows[a].createdAt > ret.rows[b].createdAt

\* C15: upsertConversation(X, model) with an id X that matches no stored
\* conversation creates a conversation with a fresh id different from X and
\* the title "New chat"; with the id of a stored conversation it returns that
\* same id, keeps the title and creates nothing.
C15_UpsertConversation ==
    \A id \in ConversationIdArgs, model \in Models :
        LET r == upsertConversation(StoreCur, id, model)
            stored == IF IsSome(id) THEN getConversation(StoreCur, Get(id)) ELSE None
        IN IF IsSome(stored)
           THEN /\ r.conversation.id = Get(id)
                /\ r.conversation.title = Get(stored).title
                /\ r.conversation \in r.store.conversations
                /\ ConversationIds(r.store) = ConversationIds(StoreCur)
                /\ Cardinality(r.store.conversations) = Cardinality(conversations)
                /\ r.store.uuids = uuids
                /\ r.store.messageRows = messageRows
           ELSE /\ r.conversation.id \notin 0..uuids
                /\ IsSome(id) => r.conversation.id # Get(id)
                /\ r.conversation.title = DefaultTitle
                /\ r.store.conversations = conversations \cup {r.conversation}
                /\ r.store.messageRows = messageRows

\* turns ran on a conversation that was created for an unknown id while
\* another conversation, since renamed by its first message, was stored and
\* an earlier one had been deleted
C15_Witness ==
    /\ Cardinality(conversations) = 2
    /\ \E c \in conversations : c.id > 1 /\ c.title = "m" /\ c.model = "m2"
    /\ 1 \notin ConversationIds(StoreCur)
    /\ \E t \in StoreTurnIds : turns[t].pc = "loop"

AssistantRows == {k \in 1..Len(messageRows) : messageRows[k].role = "assistant"}

\* C16: all assistant messages persisted by one turn carry the same
\* bubbleGroupId, and no two different turns (in the same or in different
\* conversations, sequential or concurrent) persist messages with the same
\* bubbleGroupId.
C16_BubbleGroupPerTurn ==
    \A a, b \in AssistantRows :
        /\ IsSome(messageRows[a].bubbleGroupId)
        /\ messageRows[a].turn = messageRows[b].turn
                <=> messageRows[a].bubbleGroupId = messageRows[b].bubbleGroupId

\* two concurrent turns of one conversation: the single bubble of one was
\* stored between the two bubbles of the other
C16_Witness ==
    \E a, b, c \in AssistantRows :
        /\ a < b
        /\ b < c
        /\ messageRows[a].turn = messageRows[c].turn
        /\ messageRows[a].turn # messageRows[b].turn
        /\ messageRows[a].conversationId = messageRows[b].conversationId

----------------------------------------------------------------------------
(* The system-prompt memory (lib/system-prompt) behind the tools            *)
(* update_system_prompt_memory, list_ and clear_system_prompt_memory.       *)
(* memoryFile is None while the file is missing, else Some(items).          *)

MAX_MEMORY_ITEMS == 3
MAX_ITEM_LENGTH == 3
MEMORY_MIN_LENGTH == 1

MemoryChars == {"a", " "}

\* the strings a caller may pass, one character longer than the schema allows
MemoryArgs == UNION {[1..n -> MemoryChars] : n \in 0..(MAX_ITEM_LENGTH + 1)}

\* slice(-n): the last n elements
LastN(s, n) == SubSeq(s, Max(1, Len(s) - n + 1), Len(s))

\* readStore: the items trimmed, the empty ones dropped, the last 120 kept
readStore(file) ==
    IF ~IsSome(file) THEN <<>>
    ELSE LastN(TrimEach(Get(file)), MAX_MEMORY_ITEMS)

listSystemPromptMemory(file) == readStore(file)

\* what addSystemPromptMemory returns, or throws
MemoryResult(stored, total, threw) ==
    [kind |-> "memory", stored |-> stored, total |-> total, threw |-> threw]

\* an alternative that appends without looking for the item
addSystemPromptMemoryAlways(file, memory) ==
    LET normalized == SubSeq(Trim(CollapseSpace(memory)), 1,
                             Min(MAX_ITEM_LENGTH, Len(Trim(CollapseSpace(memory)))))
        items == LastN(Append(readStore(file), normalized), MAX_MEMORY_ITEMS)
    IN IF normalized = <<>>
       THEN [file |-> file, result |-> MemoryResult(<<>>, 0, Some("memory is empty"))]
       ELSE [file |-> Some(items), result |-> MemoryResult(normalized, Len(items), None)]

\* the file afterwards and the result
addSystemPromptMemory(file, memory) ==
    LET normalized == SubSeq(Trim(CollapseSpace(memory)), 1,
                             Min(MAX_ITEM_LENGTH, Len(Trim(CollapseSpace(memory)))))
        items == readStore(file)
        pushed == Append(items, normalized)
        kept == IF Len(pushed) > MAX_MEMORY_ITEMS THEN LastN(pushed, MAX_MEMORY_ITEMS)
                ELSE pushed
    IN IF normalized = <<>>
       THEN [file |-> file, result |-> MemoryResult(<<>>, 0, Some("memory is empty"))]
       ELSE IF Contains(items, normalized)
            THEN [file |-> file, result |-> MemoryResult(normalized, Len(items), None)]
            ELSE [file |-> Some(kept), result |-> MemoryResult(normalized, Len(kept), None)]

clearSystemPromptMemory == Some(<<>>)

\* updateSystemPromptMemorySchema: memory: z.string().min(3).max(400)
ValidMemory(memory) == Len(memory) \in MEMORY_MIN_LENGTH..MAX_ITEM_LENGTH

\* runTool("update_system_prompt_memory", {memory})
UpdateSystemPromptMemory(memory) ==
    /\ IF ValidMemory(memory)
       THEN /\ memoryFile' = addSystemPromptMemory(memoryFile, memory).file
            /\ ret' = addSystemPromptMemory(memoryFile, memory).result
       ELSE /\ memoryFile' = memoryFile
            /\ ret' = MemoryResult(<<>>, 0, Some("ZodError"))
    /\ UNCHANGED <<clock, shellRest, turnVars, storeVars, runs, workingMessages, targetFile, simple, channelVars>>

\* runTool("clear_system_prompt_memory")
ClearSystemPromptMemory ==
    /\ memoryFile' = clearSystemPromptMemory
    /\ ret' = [kind |-> "memory", cleared |-> TRUE]
    /\ UNCHANGED <<clock, shellRest, turnVars, storeVars, runs, workingMessages, targetFile, simple, channelVars>>

\* runTool("list_system_prompt_memory")
ListSystemPromptMemory ==
    /\ ret' = [kind |-> "memory", items |-> listSystemPromptMemory(memoryFile)]
    /\ UNCHANGED <<clock, shellRest, turnVars, libVars>>

MemoryInit == TurnInit

MemoryNext ==
    \/ \E memory \in MemoryArgs : UpdateSystemPromptMemory(memory)
    \/ ClearSystemPromptMemory
    \/ ListSystemPromptMemory

MemorySpec == MemoryInit /\ [][MemoryNext]_vars

NoDuplicates(s) == \A i, j \in 1..Len(s) : s[i] = s[j] => i = j

\* white space collapsed, trimmed, cut to the item length
NormalizedMemory(memory) ==
    SubSeq(Trim(CollapseSpace(memory)), 1,
           Min(MAX_ITEM_LENGTH, Len(Trim(CollapseSpace(memory)))))

\* C18: after any sequence of update_system_prompt_memory and
\* clear_system_prompt_memory calls the stored item list contains no item
\* twice and at most 120 items; adding an item already stored leaves the
\* list unchanged; adding a new item to a full list drops the oldest item
\* and keeps the order of the others.
C18_MemoryBoundedNoDuplicates ==
    /\ [](/\ NoDuplicates(readStore(memoryFile))
          /\ Len(readStore(memoryFile)) <= MAX_MEMORY_ITEMS
          /\ IsSome(memoryFile) => Get(memoryFile) = readStore(memoryFile))
    /\ [][\A memory \in MemoryArgs :
            (ValidMemory(memory) /\ UpdateSystemPromptMemory(memory)) =>
                LET old == readStore(memoryFile)
                    new == readStore(memoryFile')
                    item == NormalizedMemory(memory)
                IN /\ Contains(old, item) => new = old
                   /\ (item # <<>> /\ ~Contains(old, item)) =>
                        IF Len(old) = MAX_MEMORY_ITEMS
                        THEN new = Append(Tail(old), item)
                        ELSE new = Append(old, item)]_vars

\* a new item was added to a full list: the oldest was dropped
C18_Witness ==
    /\ IsSome(memoryFile)
    /\ Get(memoryFile) = <<<<"a">>, <<"a", " ", "a">>, <<"a", "a">>>>
    /\ "stored" \in DOMAIN ret
    /\ ret.stored = <<"a", "a">>
    /\ ret.total = MAX_MEMORY_ITEMS

----------------------------------------------------------------------------
(* edit_file (lib/tools.ts). A file is the sequence of its lines, what      *)
(* content.split("\n") gives and lines.join("\n") takes; a new text is the  *)
(* sequence of its lines as well, so it has at least one line.              *)

MaxLines == 4        \* lines of the file
MaxPatches == 2      \* patches of one call

NewTexts == {<<"N">>, <<"">>, <<"N", "N">>}

\* editPatchSchema: startLine and endLine are positive integers
Patches == [startLine : 1..(MaxLines + 1), endLine : 1..(MaxLines + 1), newText : NewTexts]
PatchLists == UNION {[1..n -> Patches] : n \in 1..MaxPatches}

RECURSIVE InsertDescending(_, _)
\* p goes after the patches that do not start before it
InsertDescending(sorted, p) ==
    IF sorted = <<>> THEN <<p>>
    ELSE IF Head(sorted).startLine >= p.startLine
         THEN <<Head(sorted)>> \o InsertDescending(Tail(sorted), p)
         ELSE <<p>> \o sorted

RECURSIVE SortDescending(_)
\* [...patches].sort((a, b) => b.startLine - a.startLine), a stable sort
SortDescending(patches) ==
    IF patches = <<>> THEN <<>>
    ELSE InsertDescending(SortDescending(SubSeq(patches, 1, Len(patches) - 1)),
                          patches[Len(patches)])

\* Array.prototype.splice(start, deleteCount, ...items) for start >= 0
Splice(lines, start, deleteCount, items) ==
    LET actualStart == Min(start, Len(lines))
        actualDelete == Min(Max(deleteCount, 0), Len(lines) - actualStart)
    IN SubSeq(lines, 1, actualStart) \o items
            \o SubSeq(lines, actualStart + actualDelete + 1, Len(lines))

RECURSIVE ApplySorted(_, _)
ApplySorted(lines, sorted) ==
    IF sorted = <<>> THEN lines
    ELSE ApplySorted(Splice(lines, Head(sorted).startLine - 1,
                            Head(sorted).endLine - (Head(sorted).startLine - 1),
                            Head(sorted).newText),
                     Tail(sorted))

applyPatches(lines, patches) == ApplySorted(lines, SortDescending(patches))

\* runTool("edit_file", {path, patches}) on a file that exists
EditFile(patches) ==
    /\ Len(applyPatches(targetFile, patches)) <= MaxLines
    /\ targetFile' = applyPatches(targetFile, patches)
    /\ ret' = [kind |-> "edit_file", applied |-> TRUE, hunksApplied |-> Len(patches),
               threw |-> None]
    /\ UNCHANGED <<clock, shellRest, turnVars, storeVars, runs, workingMessages, memoryFile, simple, channelVars>>

\* runTool("write_file", {path, content})
WriteFile(lines) ==
    /\ targetFile' = lines
    /\ ret' = [kind |-> "write_file", applied |-> TRUE, hunksApplied |-> 0, threw |-> None]
    /\ UNCHANGED <<clock, shellRest, turnVars, storeVars, runs, workingMessages, memoryFile, simple, channelVars>>

FileContents == {<<"a", "b", "c">>, <<"a", "b", "c", "">>, <<"">>}

EditInit ==
    /\ ShellIdle
    /\ TurnIdle
    /\ StoreIdle
    /\ JobsIdle
    /\ memoryFile = None
    /\ targetFile = <<"a", "b", "c">>
    /\ simple = NoSimple
    /\ ChannelsIdle

EditNext ==
    \/ \E patches \in PatchLists : EditFile(patches)
    \/ \E lines \in FileContents : WriteFile(lines)

EditSpec == EditInit /\ [][EditNext]_vars

\* the line range of a patch is out of bounds for a file of n lines
OutOfBounds(p, n) == p.startLine > n \/ p.endLine > n \/ p.endLine < p.startLine

\* C19: edit_file fails with an InvalidRange error and leaves the file
\* content unchanged whenever some patch's line range is out of bounds for
\* the file (startLine or endLine beyond the last line, or endLine before
\* startLine).
C19_InvalidRangeRejected ==
    [][\A patches \in PatchLists :
        ( /\ EditFile(patches)
          /\ \E k \in 1..Len(patches) : OutOfBounds(patches[k], Len(targetFile)) )
            => /\ ret'.threw = Some("InvalidRange")
               /\ targetFile' = targetFile]_vars

\* a patch for line 4 of a file of 3 lines was applied: its text was appended
C19_Witness ==
    /\ targetFile = <<"a", "b", "c", "N">>
    /\ "applied" \in DOMAIN ret
    /\ ret.kind = "edit_file"
    /\ ret.applied
    /\ ret.hunksApplied = 1

----------------------------------------------------------------------------
(* The channel manager (lib/channels/manager.ts): startTelegram and         *)
(* startWhatsApp. channelStore[ch] holds the client of the channel, its     *)
(* start promise, and two counts the properties read: the client instances  *)
(* constructed so far and the start bodies that have not finished.          *)

ChannelCallers == 2  \* start calls in flight

Channels == {"telegram", "whatsapp"}

NoChannel == [client |-> FALSE, startPromise |-> "none", running |-> FALSE,
              connected |-> FALSE, lastError |-> FALSE, created |-> 0,
              inFlight |-> 0, started |-> 0]
IdleStart == [pc |-> "idle", channel |-> "none"]

StartCallers == DOMAIN starts

\* the body of the start promise up to its await (getMe / initialize): the
\* client is constructed if there is none; the constructor may throw, which
\* the catch block turns into a state with running = false
StartBody(ch, constructed) ==
    LET s == channelStore[ch]
        made == ~s.client /\ constructed
        failed == ~s.client /\ ~constructed
    IN [s EXCEPT !.client = @ \/ made,
                 !.created = IF made THEN @ + 1 ELSE @,
                 !.started = @ + 1,
                 !.inFlight = IF failed THEN @ ELSE @ + 1,
                 !.running = IF failed THEN FALSE ELSE IF ch = "whatsapp" THEN TRUE ELSE @,
                 !.connected = IF failed \/ ch = "whatsapp" THEN FALSE ELSE @,
                 !.lastError = IF failed THEN TRUE ELSE IF ch = "whatsapp" THEN FALSE ELSE @,
                 !.startPromise = IF failed THEN "settled" ELSE "pending"]

\* an alternative start that does not look for an outstanding start
StartChannelAnyway(c, ch, hasToken, constructed) ==
    /\ starts[c].pc = "idle"
    /\ channelStore[ch].started < ChannelCallers
    /\ channelStore' = [channelStore EXCEPT ![ch] = StartBody(ch, constructed)]
    /\ starts' = [starts EXCEPT ![c] = [pc |-> "own", channel |-> ch]]
    /\ UNCHANGED <<shellVars, turnVars, storeVars, runs, workingMessages, toolVars>>

\* startTelegram / startWhatsApp up to the first await
StartChannel(c, ch, hasToken, constructed) ==
    /\ starts[c].pc = "idle"
    /\ IF channelStore[ch].startPromise # "none"
       THEN /\ starts' = [starts EXCEPT ![c] = [pc |-> "waiting", channel |-> ch]]
            /\ UNCHANGED channelStore
       ELSE IF ch = "telegram" /\ ~hasToken
            THEN /\ channelStore' = [channelStore EXCEPT ![ch].running = FALSE,
                                                         ![ch].connected = FALSE,
                                                         ![ch].lastError = TRUE]
                 /\ UNCHANGED starts
            ELSE /\ channelStore' = [channelStore EXCEPT ![ch] = StartBody(ch, constructed)]
                 /\ starts' = [starts EXCEPT ![c] = [pc |-> "own", channel |-> ch]]
    /\ UNCHANGED <<shellVars, turnVars, storeVars, runs, workingMessages, toolVars>>

\* bot.getMe() or client.initialize() settles and the start body ends
StartBodyEnds(ch, ok) ==
    /\ channelStore[ch].inFlight > 0
    /\ channelStore' = [channelStore EXCEPT
            ![ch].inFlight = @ - 1,
            ![ch].running = IF ~ok THEN FALSE ELSE IF ch = "telegram" THEN TRUE ELSE @,
            ![ch].connected = IF ~ok THEN FALSE ELSE IF ch = "telegram" THEN TRUE ELSE @,
            ![ch].lastError = IF ~ok THEN TRUE ELSE IF ch = "telegram" THEN FALSE ELSE @,
            ![ch].startPromise = IF channelStore[ch].inFlight = 1 THEN "settled" ELSE @]
    /\ UNCHANGED <<shellVars, turnVars, storeVars, runs, workingMessages, toolVars, starts>>

\* the await of the start promise ends in a caller
StartReturns(c) ==
    /\ starts[c].pc \in {"waiting", "own"}
    /\ channelStore[starts[c].channel].startPromise = "settled"
    /\ starts' = [starts EXCEPT ![c] = IdleStart]
    /\ UNCHANGED <<shellVars, turnVars, storeVars, runs, workingMessages, toolVars, channelStore>>

\* the WhatsApp client reports ready or disconnected
WhatsAppEvent(ready) ==
    /\ channelStore["whatsapp"].client
    /\ channelStore["whatsapp"].startPromise # "none"
    /\ channelStore' = [channelStore EXCEPT !["whatsapp"].running = TRUE,
                                            !["whatsapp"].connected = ready,
                                            !["whatsapp"].lastError = ~ready]
    /\ UNCHANGED <<shellVars, turnVars, storeVars, runs, workingMessages, toolVars, starts>>

ChannelInit ==
    /\ ShellIdle
    /\ TurnIdle
    /\ StoreIdle
    /\ JobsIdle
    /\ ToolsIdle
    /\ channelStore = [ch \in Channels |-> NoChannel]
    /\ starts = [c \in 1..ChannelCallers |-> IdleStart]

ChannelNext ==
    \/ \E c \in StartCallers, ch \in Channels, hasToken, constructed \in BOOLEAN :
            StartChannel(c, ch, hasToken, constructed)
    \/ \E ch \in Channels, ok \in BOOLEAN : StartBodyEnds(ch, ok)
    \/ \E c \in StartCallers : StartReturns(c)
    \/ \E ready \in BOOLEAN : WhatsAppEvent(ready)

ChannelSpec == ChannelInit /\ [][ChannelNext]_vars

\* C20: under any interleaving of start calls for a channel (telegram or
\* whatsapp), at most one client instance of that channel is ever created
\* and at most one start is in flight at a time: a start call made while
\* another start of that channel is outstanding waits for that one and does
\* not run a second start.
C20_SingleStart ==
    \A ch \in Channels :
        /\ channelStore[ch].created <= 1
        /\ channelStore[ch].inFlight <= 1
        /\ channelStore[ch].started <= 1
        /\ channelStore[ch].inFlight = 1 => channelStore[ch].startPromise = "pending"
        /\ \A c \in StartCallers :
            (starts[c].channel = ch /\ starts[c].pc = "waiting")
                => channelStore[ch].startPromise # "none"
        /\ Cardinality({c \in StartCallers :
                            starts[c].channel = ch /\ starts[c].pc = "own"}) <= 1

\* a second start of a channel waits for the outstanding one
C20_Witness ==
    \E ch \in Channels, c, d \in StartCallers :
        /\ starts[c] = [pc |-> "own", channel |-> ch]
        /\ starts[d] = [pc |-> "waiting", channel |-> ch]
        /\ channelStore[ch].inFlight = 1
        /\ channelStore[ch].created = 1

----------------------------------------------------------------------------
(* Channel links (lib/store.ts getOrCreateChannelConversation): one row of  *)
(* channel_links per external chat, pointing at its conversation.           *)

ExternalChatIds == {"1", "2"}

\* `${channel}:${externalChatId}`
ChannelTitle(channel, externalChatId) ==
    IF channel = "telegram"
    THEN (IF externalChatId = "1" THEN "telegram:1" ELSE "telegram:2")
    ELSE (IF externalChatId = "1" THEN "whatsapp:1" ELSE "whatsapp:2")

\* SELECT ... FROM channel_links WHERE channel = ? AND external_chat_id = ?
LinksOf(S, channel, externalChatId) ==
    {l \in S.channelLinks : l.channel = channel /\ l.externalChatId = externalChatId}

\* INSERT INTO channel_links: UNIQUE(channel, external_chat_id) refuses a
\* second row of the pair
InsertChannelLink(S, channel, externalChatId, conversationId) ==
    IF LinksOf(S, channel, externalChatId) # {}
    THEN [store |-> S, threw |-> Some("SQLITE_CONSTRAINT_UNIQUE")]
    ELSE [store |-> [S EXCEPT !.uuids = @ + 1,
                              !.channelLinks = @ \cup
                                  {[id |-> randomUUID(S), channel |-> channel,
                                    externalChatId |-> externalChatId,
                                    conversationId |-> conversationId]}],
          threw |-> None]

\* the store afterwards, the conversation returned and the error thrown
getOrCreateChannelConversation(S, channel, externalChatId, model) ==
    LET existingLink == LinksOf(S, channel, externalChatId)
        existing == IF existingLink = {} THEN None
                    ELSE getConversation(S, (CHOOSE l \in existingLink : TRUE).conversationId)
        created == createConversation(S, model, ChannelTitle(channel, externalChatId))
        linked == InsertChannelLink(created.store, channel, externalChatId,
                                    created.conversation.id)
    IN IF IsSome(existing)
       THEN [store |-> S, conversation |-> existing, threw |-> None]
       ELSE IF IsSome(linked.threw)
            THEN [store |-> linked.store, conversation |-> None, threw |-> linked.threw]
            ELSE [store |-> linked.store, conversation |-> Some(created.conversation),
                  threw |-> None]

\* handleIncomingChannelMessage up to the turn it starts
InboundMessage(channel, externalChatId, model) ==
    LET r == getOrCreateChannelConversation(StoreCur, channel, externalChatId, model)
    IN /\ r.store.uuids <= MaxUuids
       /\ StoreCommit(r.store)
       /\ ret' = [kind |-> "channelConversation", conversation |-> r.conversation,
                  threw |-> r.threw]
       /\ UNCHANGED <<clock, shellRest, turnVars, turns, runs, workingMessages, toolVars, channelVars>>

LinkInit ==
    /\ ShellIdle
    /\ TurnIdle
    /\ LibIdle

LinkNext ==
    \/ \E channel \in Channels, externalChatId \in ExternalChatIds, model \in Models :
            InboundMessage(channel, externalChatId, model)
    \/ \E c \in ConversationIds(StoreCur) : DeleteConversation(c)

LinkSpec == LinkInit /\ [][LinkNext]_vars

\* the conversation a pair is linked to, when it exists
LinkedConversation(channel, externalChatId) ==
    {c \in conversations :
        \E l \in channelLinks : /\ l.channel = channel
                                /\ l.externalChatId = externalChatId
                                /\ l.conversationId = c.id}

\* C21: for any sequence of inbound channel messages and conversation
\* deletions there is at most one channel link per (channel,
\* externalChatId); getOrCreateChannelConversation returns the conversation
\* the pair is linked to as long as that conversation exists, and creates a
\* new conversation and link, without failing, when it does not (never
\* linked, or deleted).
C21_OneLinkPerChat ==
    /\ [](\A l, k \in channelLinks :
            (l.channel = k.channel /\ l.externalChatId = k.externalChatId) => l = k)
    /\ [][\A l \in channelLinks :
            l.conversationId \in ConversationIds([conversations |-> conversations'])
                => l \in channelLinks']_vars
    /\ [][\A channel \in Channels, externalChatId \in ExternalChatIds, model \in Models :
            InboundMessage(channel, externalChatId, model) =>
                /\ ret'.threw = None
                /\ IsSome(ret'.conversation)
                /\ LinkedConversation(channel, externalChatId)' = {Get(ret'.conversation)}
                /\ IF LinkedConversation(channel, externalChatId) # {}
                   THEN /\ LinkedConversation(channel, externalChatId)
                                = {Get(ret'.conversation)}
                        /\ UNCHANGED <<conversations, channelLinks>>
                   ELSE /\ Get(ret'.conversation).id \notin ConversationIds(StoreCur)
                        /\ conversations' = conversations \cup {Get(ret'.conversation)}]_vars

\* a chat whose conversation was deleted got a new conversation and link
C21_Witness ==
    /\ "conversation" \in DOMAIN ret
    /\ ret.kind = "channelConversation"
    /\ IsSome(ret.conversation)
    /\ Get(ret.conversation).id = 3
    /\ Get(ret.conversation).title = "telegram:1"
    /\ Cardinality(conversations) = 1
    /\ Cardinality(channelLinks) = 1

----------------------------------------------------------------------------
(* The first lines of POST /api/chat/stream and of runAssistantTurn: the    *)
(* test of the message, then the conversation, the conversation event and   *)
(* the user message, on the store and on the turn together.                 *)

RequestMessages == {<<>>, <<" ">>, <<" ", "\n">>, <<"m">>, <<" ", "m">>}

MessageRequired == "message is required"

\* new Response("message is required", {status: 400}) from the route; the
\* thrown Error from runAssistantTurn for a caller without a route
Rejected(viaStream) ==
    [kind |-> "request", status |-> IF viaStream THEN 400 ELSE 0,
     threw |-> IF viaStream THEN None ELSE Some(MessageRequired)]

\* runAssistantTurn for a message that passed the test, up to the first LLM
\* call
PostAccepted(t, message, id, model, viaStream) ==
    /\ turn.pc = "idle"
    /\ FreeTurn(t)
    /\ LET up == upsertConversation(StoreCur, id, model)
           S1 == addMessageRow(up.store, up.conversation.id, "user", None, clock,
                               randomUUID(up.store))
           T0 == [TCur EXCEPT !.sink.state = IF viaStream THEN "readable" ELSE "none"]
           T1 == addMessage(Enqueue(T0, Ev("conversation", 0, TRUE)), "user", message)
       IN /\ S1.uuids <= MaxUuids
          /\ StoreCommit(setConversationTitleIfDefault(S1, up.conversation.id, "m"))
          /\ turns' = [turns EXCEPT ![t] = [IdleTurn EXCEPT !.pc = "loop",
                                    !.conversationId = up.conversation.id,
                                    !.turnId = randomUUID(up.store)]]
          /\ TCommit([T1 EXCEPT !.turn.pc = "llm", !.turn.llmCalls = 1,
                                !.turn.conversationId = up.conversation.id])
    /\ ret' = NoRet
    /\ UNCHANGED <<clock, shellRest, runs, workingMessages, toolVars, channelVars>>

\* an alternative that does not test the message
PostMessageUntested(t, message, id, model, viaStream) ==
    PostAccepted(t, message, id, model, viaStream)

\* POST /api/chat/stream (viaStream) or runAssistantTurn called directly
PostMessage(t, message, id, model, viaStream) ==
    IF Trim(message) = <<>>
    THEN /\ ret' = Rejected(viaStream)
         /\ UNCHANGED <<clock, shellRest, turnVars, libVars>>
    ELSE PostAccepted(t, message, id, model, viaStream)

RequestResponses ==
    {[hasMessage |-> TRUE, content |-> t, calls |-> 0] : t \in FinalContents}

RequestInit ==
    /\ ShellIdle
    /\ TurnIdle
    /\ StoreInit

RequestNext ==
    \/ \E t \in StoreTurnIds, message \in RequestMessages, model \in Models,
          id \in {None, Some(0)}, viaStream \in BOOLEAN :
            PostMessage(t, message, id, model, viaStream)
    \/ \E resp \in RequestResponses : LLMReturns(resp)
    \/ LLMThrows
    \/ TokenSlept
    \/ PauseSlept
    \/ ClientDisconnect

RequestSpec == RequestInit /\ [][RequestNext]_vars

\* C22: a turn whose message is empty or whitespace-only fails (status 400
\* from the route, the error "message is required" from runAssistantTurn)
\* before any state changes: no conversation is created or updated, no
\* message is persisted, no event is emitted and no LLM call is made.
C22_EmptyMessageRejected ==
    [][\A t \in StoreTurnIds, message \in RequestMessages, model \in Models,
          id \in {None, Some(0)}, viaStream \in BOOLEAN :
            (PostMessage(t, message, id, model, viaStream)
             /\ \A k \in 1..Len(message) : IsSpace(message[k])) =>
                /\ ret' = Rejected(viaStream)
                /\ (viaStream => ret'.status = 400)
                /\ (~viaStream => ret'.threw = Some(MessageRequired))
                /\ conversations' = conversations
                /\ messageRows' = messageRows
                /\ messages' = messages
                /\ sink' = sink
                /\ turn' = turn
                /\ UNCHANGED <<uuids, turns, toolCalls, runs>>]_vars

\* a blank message was refused while an accepted turn waits for the LLM
C22_Witness ==
    /\ "status" \in DOMAIN ret
    /\ ret.kind = "request"
    /\ ret.status = 400
    /\ turn.pc = "llm"
    /\ Cardinality(conversations) = 1
    /\ Len(messageRows) = 1

----------------------------------------------------------------------------
(* write_stdin with an id that is not registered.                           *)

\* command state and cursors of a session object
CommandState(s) ==
    [pendingCommand |-> s.pendingCommand, interactive |-> s.interactive,
     stdoutReadAt |-> s.stdoutReadAt, stderrReadAt |-> s.stderrReadAt,
     stdout |-> s.stdout, stderr |-> s.stderr, stdinChars |-> s.stdinChars]

\* C23: write_stdin with a session id that is not registered (never
\* created, closed, evicted, swept, or removed because its shell exited)
\* fails with the Unknown shell session error, writes to no process and
\* changes no session's command state or cursors; it registers nothing.
C23_UnknownSessionRefused ==
    [][\A c \in Callers, sessionId \in SessIds, chars \in CharsArgs, yieldMs \in YieldArgs :
        (sessionId \notin registered /\ WriteStdin(c, sessionId, chars, yieldMs)) =>
            /\ ret'.res = UnknownSession(sessionId)
            /\ calls' = calls
            /\ registered' \subseteq registered
            /\ \A i \in registered' : CommandState(sess'[i]) = CommandState(sess[i])
            /\ \A i \in registered' :
                    sess[i].interactive # 0 =>
                        acts'[sess[i].interactive] = acts[sess[i].interactive]]_vars

\* write_stdin was refused for a session that a sweep, an eviction or a
\* close had killed, while another session has a command in flight
C23_Witness ==
    /\ ret.res.kind = "throw"
    /\ ret.res.sessionId \in SessIds \ registered
    /\ sess[ret.res.sessionId].proc = "killed"
    /\ \E i \in registered : IsSome(sess[i].pendingCommand)

----------------------------------------------------------------------------
(* The simple-exec session manager (lib/shell/session-manager.ts): every    *)
(* command is run by a new child shell in the session's cwd, and cd is      *)
(* intercepted. simple.sessions holds every session object ever created,    *)
(* by id; `registered` says whether the sessions map still has it.          *)

SimpleIds == 2       \* sessions ever created (simple-exec specification)
SimpleClock == 4     \* the clock stops here (simple-exec specification)

HomeDir == <<"/", "h">>
Directories == {<<"/">>, ProcessCwd, <<"/", "a", "/", "d">>, HomeDir}
Files == {<<"/", "a", "/", "f">>}

\* fs.statSync(p).isDirectory(), statSync throwing for a missing path
IsDirectory(p) == p \in Directories

Quotes == {"'", "\""}

\* path.resolve(base, p) on POSIX, base being absolute
PathResolveFrom(base, p) ==
    LET abs == IF p # <<>> /\ Head(p) = "/" THEN p ELSE base \o <<"/">> \o p
        segs == NormSegs(SplitSlash(abs, <<>>), <<>>)
    IN IF segs = <<>> THEN <<"/">> ELSE JoinSlash(segs)

\* replace(/^['"]|['"]$/g, "")
StripQuotes(a) ==
    LET b == IF a # <<>> /\ Head(a) \in Quotes THEN Tail(a) ELSE a
    IN IF b # <<>> /\ b[Len(b)] \in Quotes THEN SubSeq(b, 1, Len(b) - 1) ELSE b

\* parseCd: the match of /^\s*cd(?:\s+(.+))?\s*$/ on a one-line command, "cd"
\* being one unit; None is null
parseCd(command) ==
    LET s == TrimLeft(command)
        rest == Tail(s)
    IN IF s = <<>> \/ Head(s) # "cd" THEN None
       ELSE IF rest = <<>> THEN Some(<<"~">>)
       ELSE IF ~IsSpace(Head(rest)) THEN None
       ELSE IF Len(rest) = 1 THEN Some(<<"~">>)
       ELSE Some(StripQuotes(Trim(rest)))

SimpleSessionIds(X) == {i \in 1..Len(X.sessions) : X.sessions[i].registered}

\* cleanupSessions of the simple manager
SimpleCleanupSessions(X) ==
    IF clock - X.lastCleanup < CLEANUP_INTERVAL_MS THEN X
    ELSE [X EXCEPT !.lastCleanup = clock,
                   !.sessions = [i \in 1..Len(@) |->
                        IF clock - @[i].lastUsedAt > SESSION_TTL_MS
                        THEN [@[i] EXCEPT !.registered = FALSE] ELSE @[i]]]

\* sort((a, b) => a.lastUsedAt - b.lastUsedAt)[0] over the map's values, which
\* iterate in insertion order
SimpleOldest(X) ==
    CHOOSE i \in SimpleSessionIds(X) :
        \A j \in SimpleSessionIds(X) :
            \/ X.sessions[i].lastUsedAt < X.sessions[j].lastUsedAt
            \/ (X.sessions[i].lastUsedAt = X.sessions[j].lastUsedAt /\ i <= j)

\* createSessionInternal: the manager afterwards and the id of the session
SimpleCreateSessionInternal(X, cwd) ==
    LET X1 == SimpleCleanupSessions(X)
        X2 == IF Cardinality(SimpleSessionIds(X1)) >= MAX_SESSIONS
              THEN [X1 EXCEPT !.sessions[SimpleOldest(X1)].registered = FALSE]
              ELSE X1
        session == [registered |-> TRUE,
                    cwd |-> IF IsSome(cwd) THEN PathResolve(Get(cwd)) ELSE ProcessCwd,
                    lastUsedAt |-> clock]
    IN [simple |-> [X2 EXCEPT !.sessions = Append(@, session), !.created = @ + 1],
        id |-> Len(X2.sessions) + 1]

SimpleGetSession(X, sessionId, cwd) ==
    IF IsSome(sessionId) /\ Get(sessionId) \in SimpleSessionIds(X)
    THEN [simple |-> [X EXCEPT
                !.sessions[Get(sessionId)].cwd =
                    IF IsSome(cwd) THEN PathResolve(Get(cwd)) ELSE @,
                !.sessions[Get(sessionId)].lastUsedAt = clock],
          id |-> Get(sessionId)]
    ELSE SimpleCreateSessionInternal(X, cwd)

\* a session object that the map and the call in flight no longer refer to
\* cannot be reached by the program: it is kept as a blank
SimpleForget(X) ==
    [X EXCEPT !.sessions = [i \in 1..Len(@) |->
        IF @[i].registered \/ (IsSome(X.exec) /\ Get(X.exec).id = i) THEN @[i]
        ELSE [registered |-> FALSE, cwd |-> <<>>, lastUsedAt |-> 0]]]

\* trimOutput of the simple manager: the first MAX_OUTPUT_CHARS characters
SimpleTrimOutput(value) ==
    IF Len(value) <= MAX_OUTPUT_CHARS THEN value
    ELSE Append(SubSeq(value, 1, MAX_OUTPUT_CHARS), "...[truncated]")

NoSuchDirectory == "cd: no such directory"

SimpleResult(sessionId, exitCode, stdout, stderr, cwd, ranIn) ==
    [kind |-> "simple", sessionId |-> sessionId, exitCode |-> exitCode,
     stdout |-> stdout, stderr |-> stderr, cwd |-> cwd, ranIn |-> ranIn]

\* runCommand up to its return (cd) or to its await of the child shell
SimpleRunCommand(sessionId, command, cwd) ==
    LET g == SimpleGetSession(SimpleCleanupSessions(simple), sessionId, cwd)
        X == g.simple
        id == g.id
        session == X.sessions[id]
        cdArg == parseCd(command)
        nextCwd == IF Get(cdArg) = <<"~">> THEN HomeDir
                   ELSE PathResolveFrom(session.cwd, Get(cdArg))
    IN /\ Len(X.sessions) <= SimpleIds
       /\ IF IsSome(cdArg) /\ Get(cdArg) # <<>>
          THEN IF ~IsDirectory(nextCwd)
               THEN /\ simple' = SimpleForget(X)
                    /\ ret' = SimpleResult(id, 1, <<>>, NoSuchDirectory, session.cwd, None)
               ELSE /\ simple' = SimpleForget([X EXCEPT !.sessions[id].cwd = nextCwd,
                                           !.sessions[id].lastUsedAt = clock])
                    /\ ret' = SimpleResult(id, 0, nextCwd, "", nextCwd, None)
          ELSE /\ ~IsSome(X.exec)
               /\ simple' = SimpleForget([X EXCEPT !.exec = Some([id |-> id, ranIn |-> session.cwd])])
               /\ ret' = NoRet
       /\ UNCHANGED <<clock, shellRest, turnVars, storeVars, runs, workingMessages, memoryFile, targetFile,
                      channelVars>>

\* execAsync settles: the child shell ran in the cwd the session had when
\* the call started; a command that prints nothing
SimpleExecReturns(exitCode) ==
    /\ IsSome(simple.exec)
    /\ LET e == Get(simple.exec)
       IN /\ simple' = SimpleForget([simple EXCEPT !.exec = None,
                                      !.sessions[e.id].lastUsedAt = clock])
          /\ ret' = SimpleResult(e.id, exitCode, SimpleTrimOutput(<<>>),
                                 IF exitCode = 0 THEN "" ELSE "failed",
                                 simple.sessions[e.id].cwd, Some(e.ranIn))
    /\ UNCHANGED <<clock, shellRest, turnVars, storeVars, runs, workingMessages, memoryFile, targetFile,
                   channelVars>>

SimpleCreateShellSession(cwd) ==
    /\ Len(simple.sessions) < SimpleIds
    /\ simple' = SimpleForget(SimpleCreateSessionInternal(simple, cwd).simple)
    /\ ret' = NoRet
    /\ UNCHANGED <<clock, shellRest, turnVars, storeVars, runs, workingMessages, memoryFile, targetFile,
                   channelVars>>

SimpleCloseShellSession(sessionId) ==
    /\ sessionId \in SimpleSessionIds(simple)
    /\ simple' = SimpleForget([simple EXCEPT !.sessions[sessionId].registered = FALSE])
    /\ ret' = NoRet
    /\ UNCHANGED <<clock, shellRest, turnVars, storeVars, runs, workingMessages, memoryFile, targetFile,
                   channelVars>>

CdCommands ==
    {<<"cd">>, <<"cd", " ", "'", "d", "'">>, <<" ", "cd", " ", ".", ".", " ">>,
     <<"cd", " ", "x">>, <<"cd", " ", "f">>, <<"cd", " ", "'", "'">>, <<"cd", " ", " ">>}
SimpleCommands == CdCommands \cup {<<"true">>}
SimpleCwdArgs == {None, Some(HomeDir)}

SimpleInit ==
    /\ ShellIdle
    /\ TurnIdle
    /\ LibIdle

SimpleNext ==
    \/ \E sessionId \in {None} \cup {Some(i) : i \in 1..SimpleIds},
          command \in SimpleCommands, cwd \in SimpleCwdArgs :
            SimpleRunCommand(sessionId, command, cwd)
    \/ \E exitCode \in ExitCodes : SimpleExecReturns(exitCode)
    \/ \E cwd \in SimpleCwdArgs : SimpleCreateShellSession(cwd)
    \/ \E sessionId \in 1..SimpleIds : SimpleCloseShellSession(sessionId)
    \/ Tick(SimpleClock)

SimpleSpec == SimpleInit /\ [][SimpleNext]_vars


\* the directory a cd command names: HOME for ~ and for no argument, else
\* the argument resolved against the session's cwd
CdTarget(cwd, command) ==
    IF Get(parseCd(command)) = <<"~">> THEN HomeDir
    ELSE PathResolveFrom(cwd, Get(parseCd(command)))

\* C24: in the simple-exec session manager a cd command to an existing
\* directory returns exitCode = 0 with stdout equal to the new cwd and sets
\* the session's cwd, so that a later command of the session runs in that
\* directory; a cd to a missing or non-directory target returns exitCode = 1
\* with the 'cd: no such directory' stderr and leaves the session's cwd
\* unchanged.
C24_CdSetsCwd ==
    [][\A sessionId \in {None} \cup {Some(i) : i \in 1..SimpleIds},
          command \in SimpleCommands, cwd \in SimpleCwdArgs :
        SimpleRunCommand(sessionId, command, cwd) =>
            LET g == SimpleGetSession(SimpleCleanupSessions(simple), sessionId, cwd)
                before == g.simple.sessions[g.id].cwd
            IN IF command \in CdCommands
               THEN /\ "exitCode" \in DOMAIN ret'
                    /\ ret'.sessionId = g.id
                    /\ IF IsDirectory(CdTarget(before, command))
                       THEN /\ ret'.exitCode = 0
                            /\ ret'.stdout = CdTarget(before, command)
                            /\ simple'.sessions[g.id].cwd = CdTarget(before, command)
                       ELSE /\ ret'.exitCode = 1
                            /\ ret'.stderr = NoSuchDirectory
                            /\ simple'.sessions[g.id].cwd = before
               ELSE /\ IsSome(simple'.exec)
                    /\ Get(simple'.exec).ranIn = before]_vars

\* after cd 'd' in /a a later command of the session ran in /a/d
C24_Witness ==
    /\ "ranIn" \in DOMAIN ret
    /\ ret.ranIn = Some(<<"/", "a", "/", "d">>)
    /\ ret.exitCode = 0
    /\ ret.sessionId \in SimpleSessionIds(simple)
    /\ simple.sessions[ret.sessionId].cwd = <<"/", "a", "/", "d">>

----------------------------------------------------------------------------
(* The bubble splitter on its own: turn.text is drawn from every text over  *)
(* a small alphabet and splitIntoBubbles is applied to it.                  *)

MaxBubbleText == 7   \* characters of the text that is split

BubbleChars == {"a", ".", " ", "\n", "\r"}
BubbleTexts == UNION {[1..n -> BubbleChars] : n \in 0..MaxBubbleText}

SplitText ==
    /\ ret = NoRet
    /\ ret' = [kind |-> "split", bubbles |-> splitIntoBubbles(turn.text)]
    /\ UNCHANGED <<clock, shellRest, turnVars, libVars>>

BubbleInit ==
    /\ ShellIdle
    /\ \E text \in BubbleTexts : turn = [NoTurn EXCEPT !.text = text]
    /\ toolCalls = <<>>
    /\ messages = <<>>
    /\ sink = NoSink
    /\ LibIdle

BubbleNext == SplitText

BubbleSpec == BubbleInit /\ [][BubbleNext]_vars

\* the text as the splitter reads it: carriage returns dropped, trimmed
Normalized(text) == Trim(SelectSeq(text, LAMBDA ch : ch # "\r"))

\* position i of s is a newline in a run of two or more newlines
InBlankLine(s, i) ==
    /\ s[i] = "\n"
    /\ \/ (i > 1 /\ s[i - 1] = "\n")
       \/ (i < Len(s) /\ s[i + 1] = "\n")

\* position i of s is white space in a run of white space that starts right
\* after a ".", "!" or "?"
AfterSentence(s, i) ==
    \E j \in 1..(i - 1) :
        /\ s[j] \in {".", "!", "?"}
        /\ \A k \in (j + 1)..i : s[k] \in {" ", "\n", "\r"}

\* the maximal stretches of s between the positions in cuts, trimmed, the
\* empty ones left out, in order: as the set of their (first, last) pairs
Stretches(s, cuts) ==
    {p \in (1..Len(s)) \X (1..Len(s)) :
        /\ p[1] <= p[2]
        /\ \A k \in p[1]..p[2] : k \notin cuts
        /\ (p[1] = 1 \/ (p[1] - 1) \in cuts)
        /\ (p[2] = Len(s) \/ (p[2] + 1) \in cuts)
        /\ Trim(SubSeq(s, p[1], p[2])) # <<>>}

\* the k-th stretch of a set of stretches, by position
Stretch(s, ps, k) ==
    LET p == CHOOSE q \in ps : Cardinality({r \in ps : r[1] < q[1]}) = k - 1
    IN Trim(SubSeq(s, p[1], p[2]))

ParagraphsOf(s) == Stretches(s, {i \in 1..Len(s) : InBlankLine(s, i)})
SentencesOf(s) == Stretches(s, {i \in 1..Len(s) : AfterSentence(s, i)})

\* C25: the bubble splitter, for every text (read without carriage returns
\* and trimmed): no bubble for an empty or whitespace-only text; exactly the
\* trimmed non-empty paragraphs when blank lines separate two or more of
\* them; the whole text as one bubble for a single paragraph of at most 2
\* sentences; and for a single paragraph of n > 2 sentences ceil(n/2)
\* bubbles, each the pair of consecutive sentences in order, joined by a
\* space (the last may be a single sentence).
C25_BubbleSplitter ==
    ("bubbles" \in DOMAIN ret) =>
        LET s == Normalized(turn.text)
            b == ret.bubbles
            P == ParagraphsOf(s)
            S == SentencesOf(s)
            n == Cardinality(S)
        IN IF s = <<>> THEN b = <<>>
           ELSE IF Cardinality(P) >= 2
                THEN /\ Len(b) = Cardinality(P)
                     /\ \A k \in 1..Len(b) : b[k] = Stretch(s, P, k)
           ELSE IF n <= 2 THEN b = <<s>>
           ELSE /\ Len(b) = (n + 1) \div 2
                /\ \A k \in 1..Len(b) :
                        b[k] = IF 2 * k <= n
                               THEN Stretch(s, S, 2 * k - 1) \o <<" ">> \o Stretch(s, S, 2 * k)
                               ELSE Stretch(s, S, n)

\* three sentences of one paragraph became a pair and a single sentence
C25_Witness ==
    /\ "bubbles" \in DOMAIN ret
    /\ turn.text = <<"a", ".", "\n", "a", ".", " ", "a">>
    /\ ret.bubbles = <<<<"a", ".", " ", "a", ".">>, <<"a">>>>

----------------------------------------------------------------------------
(* A client that disconnects in the middle of a turn.                       *)

\* C26: if the streaming client disconnects in the middle of a turn, so that
\* the event sink no longer accepts events, the turn still runs to
\* completion (unless an LLM call fails): an in-flight tool finishes, its
\* ToolCallRecord reaches a terminal status, and the turn's assistant
\* messages are persisted.
C26_DisconnectedTurnCompletes ==
    /\ []((sink.state = "cancelled" /\ turn.pc = "failed") =>
            turn.error = UpstreamError)
    /\ []((sink.state = "cancelled" /\ turn.pc = "done") =>
            /\ \A id \in DOMAIN toolCalls : toolCalls[id].status # "running"
            /\ AssistantMessages(messages) # <<>>)
    /\ ((sink.state = "cancelled" /\ turn.pc \notin {"idle", "done", "failed"})
            ~> (turn.pc = "done" \/ turn.error = UpstreamError))

\* the client left while a tool ran; the tool returned and the turn ended
\* without an assistant message
C26_Witness ==
    /\ sink.state = "cancelled"
    /\ turn.pc = "failed"
    /\ turn.error = InvalidState
    /\ toolCalls # <<>>
    /\ toolCalls[Len(toolCalls)].status = "error"
    /\ AssistantMessages(messages) = <<>>

----------------------------------------------------------------------------
(* run_command as the turn dispatches it: runCommandSchema.parse, then the  *)
(* session manager (lib/tools.ts runTool, lib/sse.ts runCommandSchema).     *)

MAX_TIMEOUT_MS == 3

\* a timeoutMs argument: absent, or a JSON value
Number(value) == Some([type |-> "number", value |-> value, fraction |-> FALSE])
TimeoutArgs ==
    {None, Number(0 - 1), Number(0), Number(1), Number(MAX_TIMEOUT_MS),
     Number(MAX_TIMEOUT_MS + 1),
     Some([type |-> "number", value |-> 1, fraction |-> TRUE]),
     Some([type |-> "string", value |-> 1, fraction |-> FALSE])}

\* an alternative schema without the upper bound
runCommandSchemaUnbounded(timeoutMs) ==
    IF ~IsSome(timeoutMs) THEN Some(DEFAULT_TIMEOUT_MS)
    ELSE IF Get(timeoutMs).type = "number" /\ ~Get(timeoutMs).fraction
            /\ Get(timeoutMs).value > 0
         THEN Some(Get(timeoutMs).value)
         ELSE None

\* runCommandSchema.parse on the timeoutMs of otherwise valid arguments: the
\* parsed timeout, or None when parse throws
runCommandSchema(timeoutMs) ==
    IF ~IsSome(timeoutMs) THEN Some(DEFAULT_TIMEOUT_MS)
    ELSE IF /\ Get(timeoutMs).type = "number"
            /\ ~Get(timeoutMs).fraction
            /\ Get(timeoutMs).value > 0
            /\ Get(timeoutMs).value <= MAX_TIMEOUT_MS
         THEN Some(Get(timeoutMs).value)
         ELSE None

\* runTool("run_command", args) up to its first await: parse throws into the
\* catch block of the turn, or runCommand of the session manager starts the
\* child shell
DispatchRunCommand(timeoutMs) ==
    /\ turn.pc = "tool"
    /\ ~IsSome(simple.exec)
    /\ LET args == runCommandSchema(timeoutMs)
           g == SimpleGetSession(SimpleCleanupSessions(simple), None, None)
       IN IF ~IsSome(args)
          THEN /\ TCommit(CatchBlock(TCur))
               /\ simple' = simple
               /\ ret' = [kind |-> "run_command", threw |-> Some("ZodError"),
                          timeoutMs |-> None]
          ELSE /\ simple' = SimpleForget([g.simple EXCEPT !.exec =
                                Some([id |-> g.id, ranIn |-> g.simple.sessions[g.id].cwd,
                                      timeout |-> Get(args)])])
               /\ ret' = [kind |-> "run_command", threw |-> None, timeoutMs |-> args]
               /\ UNCHANGED turnVars
    /\ UNCHANGED <<clock, shellRest, storeVars, runs, workingMessages, memoryFile, targetFile, channelVars>>

\* execAsync settles and runCommand returns its result to the turn
RunCommandReturns ==
    /\ turn.pc = "tool"
    /\ IsSome(simple.exec)
    /\ simple' = SimpleForget([simple EXCEPT !.exec = None,
                                   !.sessions[Get(simple.exec).id].lastUsedAt = clock])
    /\ TCommit(TryBlock(TCur))
    /\ ret' = NoRet
    /\ UNCHANGED <<clock, shellRest, storeVars, runs, workingMessages, memoryFile, targetFile, channelVars>>

ValidateResponses ==
    {[hasMessage |-> TRUE, content |-> t, calls |-> 0] :
        t \in {<<"a">>, <<"a", "\n", "\n", "b">>}}
    \cup {[hasMessage |-> TRUE, content |-> <<>>, calls |-> n] : n \in 1..MaxCallsPerRound}

ValidateInit == TurnInit

ValidateNext ==
    \/ \E viaStream \in BOOLEAN : StartTurn(viaStream)
    \/ \E resp \in ValidateResponses : LLMReturns(resp)
    \/ LLMThrows
    \/ \E timeoutMs \in TimeoutArgs : DispatchRunCommand(timeoutMs)
    \/ RunCommandReturns
    \/ TokenSlept
    \/ PauseSlept
    \/ ClientDisconnect

ValidateSpec == ValidateInit /\ [][ValidateNext]_vars

\* C27: a run_command tool call whose timeoutMs is above MAX_TIMEOUT_MS (5
\* minutes) or not a positive integer is rejected by validation before the
\* session manager is reached: no session is created or touched and no
\* command is started, and the orchestrator records the ToolCallRecord with
\* status error; a call without timeoutMs is accepted with the default
\* timeout.
C27_TimeoutValidated ==
    [][\A timeoutMs \in TimeoutArgs :
        (turn.pc = "tool" /\ DispatchRunCommand(timeoutMs)) =>
            IF ~IsSome(timeoutMs)
            THEN /\ IsSome(simple'.exec)
                 /\ Get(simple'.exec).timeout = DEFAULT_TIMEOUT_MS
                 /\ ret'.threw = None
            ELSE IF \/ Get(timeoutMs).type # "number"
                    \/ Get(timeoutMs).fraction
                    \/ Get(timeoutMs).value <= 0
                    \/ Get(timeoutMs).value > MAX_TIMEOUT_MS
                 THEN /\ simple' = simple
                      /\ IsSome(ret'.threw)
                      /\ toolCalls'[turn.cur].status = "error"
                      /\ toolCalls'[turn.cur].writes = 1
                 ELSE /\ IsSome(simple'.exec)
                      /\ Get(simple'.exec).timeout = Get(timeoutMs).value]_vars

\* a call was refused after an earlier call of the turn had created a
\* session, which the refused call left alone
C27_Witness ==
    /\ "timeoutMs" \in DOMAIN ret
    /\ IsSome(ret.threw)
    /\ Len(simple.sessions) = 1
    /\ Len(toolCalls) = 2
    /\ toolCalls[1].status = "success"
    /\ toolCalls[2].status = "error"
----------------------------------------------------------------------------
(* The retained streams of a session and of an interactive command *)

StreamOut == 3

\* one caller and children that print enough to overflow a stream
StreamInit == ShellInit(CmdIds, 1, CmdTokens, StreamOut) /\ TurnIdle /\ LibIdle
StreamSpec == StreamInit /\ [][CmdNext]_vars

\* the value the step appends to a stream: the data handlers of the child
\* processes are the only callers of appendStream
StdoutChunk(id) ==
    IF ShellOutput(id, TRUE) THEN <<OutCh>>
    ELSE IF ShellNewline(id) THEN <<NL>>
    ELSE IF \E report \in SentinelReports, split \in BOOLEAN : ShellSentinel(id, report, split)
    THEN <<sess'[id].stdout.data[Len(sess'[id].stdout.data) - (IF sess'[id].mid THEN 0 ELSE 1)]>>
            \o (IF sess'[id].mid THEN <<>> ELSE <<NL>>)
    ELSE <<>>

StderrChunk(id) == IF ShellOutput(id, FALSE) THEN <<ErrCh>> ELSE <<>>

\* the session object `id` is the same object before and after the step
SameSession(id) == sess[id].proc # "none" /\ (SessionHeld(Cur, calls, id))'

\* C28: for a session's stdout and stderr streams, offset + length(data) is
\* the number of characters ever appended to the stream: it starts at 0 and
\* every step moves it by exactly the number of characters the step appends,
\* through appends, cap truncations and command completions.
C28_PositionCountsAppended ==
    [][\A id \in SessIds :
        SameSession(id) =>
            /\ absolutePosition(sess'[id].stdout)
                 = absolutePosition(sess[id].stdout) + Len(StdoutChunk(id))
            /\ absolutePosition(sess'[id].stderr)
                 = absolutePosition(sess[id].stderr) + Len(StderrChunk(id))]_vars

\* a command that printed one character completed: the shell has appended
\* that character and the sentinel line, and the position of stdout is 1
C28_Witness ==
    /\ ret.res.kind = "run" /\ ~ret.res.timedOut /\ ret.token # 0
    /\ ret.res.stdout = <<OutCh>>
    /\ ret.sid \in registered
    /\ sess[ret.sid].stdout = [offset |-> 0, data |-> <<OutCh>>]


InteractiveChunk(a, toStdout) ==
    IF InteractiveOutput(a, toStdout) THEN <<IF toStdout THEN OutCh ELSE ErrCh>> ELSE <<>>

\* the interactive command object `a` is the same object before and after
SameInteractive(a) == acts[a].proc # "none" /\ (ActHeld(Cur, calls, a))'

\* the most recent MaxLen characters of a text
RecentSuffix(text) ==
    IF Len(text) <= MaxLen THEN text
    ELSE SubSeq(text, Len(text) - MaxLen + 1, Len(text))

RetainedStreams ==
    {sess[id].stdout : id \in SessIds} \cup {sess[id].stderr : id \in SessIds}
    \cup {acts[a].stdout : a \in ActIds} \cup {acts[a].stderr : a \in ActIds}

\* C29: every retained stream (session stdout/stderr and interactive
\* stdout/stderr) holds at most max(2 x MAX_OUTPUT_CHARS, STREAM_FLOOR)
\* characters, and its data is the most recent suffix of what was appended:
\* a step that appends a chunk leaves the most recent characters of the old
\* data followed by the chunk, and no other step changes the data.
C29_RetainedTail ==
    /\ [](\A stream \in RetainedStreams : Len(stream.data) <= MaxLen)
    /\ [][/\ \A id \in SessIds :
                SameSession(id) =>
                    /\ sess'[id].stdout.data
                         = RecentSuffix(sess[id].stdout.data \o StdoutChunk(id))
                    /\ sess'[id].stderr.data
                         = RecentSuffix(sess[id].stderr.data \o StderrChunk(id))
          /\ \A a \in ActIds :
                SameInteractive(a) =>
                    /\ acts'[a].stdout.data
                         = RecentSuffix(acts[a].stdout.data \o InteractiveChunk(a, TRUE))
                    /\ acts'[a].stderr.data
                         = RecentSuffix(acts[a].stderr.data \o InteractiveChunk(a, FALSE))]_vars

\* the steps that consume a sentinel line left aside
TailKeptExceptCompletion ==
    /\ [](\A stream \in RetainedStreams : Len(stream.data) <= MaxLen)
    /\ [][/\ \A id \in SessIds :
                (SameSession(id) /\ sess'[id].pendingCommand = sess[id].pendingCommand) =>
                    /\ sess'[id].stdout.data
                         = RecentSuffix(sess[id].stdout.data \o StdoutChunk(id))
                    /\ absolutePosition(sess'[id].stdout)
                         = absolutePosition(sess[id].stdout) + Len(StdoutChunk(id))
                    /\ sess'[id].stderr.data
                         = RecentSuffix(sess[id].stderr.data \o StderrChunk(id))
                    /\ absolutePosition(sess'[id].stderr)
                         = absolutePosition(sess[id].stderr) + Len(StderrChunk(id))
          /\ \A a \in ActIds :
                SameInteractive(a) =>
                    /\ acts'[a].stdout.data
                         = RecentSuffix(acts[a].stdout.data \o InteractiveChunk(a, TRUE))
                    /\ acts'[a].stderr.data
                         = RecentSuffix(acts[a].stderr.data \o InteractiveChunk(a, FALSE))]_vars

\* a stream was cut at the front and a completion then took the sentinel
\* line out of what was left
C29_Witness ==
    /\ ret.res.kind = "run" /\ ~ret.res.timedOut /\ ret.token # 0
    /\ ret.sid \in registered
    /\ sess[ret.sid].stdout.offset > 0
    /\ Len(sess[ret.sid].stdout.data) = MaxLen - 2

----------------------------------------------------------------------------
(* The sweep of idle sessions *)

IdleTime(id) == clock - sess[id].lastUsedAt

\* C30: two sweeps are never performed less than CLEANUP_INTERVAL_MS (30 s)
\* apart; whenever a sweep is performed, every session whose idle time
\* (now - lastUsedAt) exceeds SESSION_TTL_MS is killed, its interactive child
\* too, and removed, and no session whose idle time is within the TTL is
\* removed or changed by the sweep.
C30_SweepSpacedAndExact ==
    /\ [](LET M == cleanupSessions(Cur)
          IN IF clock - lastCleanup < CLEANUP_INTERVAL_MS
             THEN M = Cur
             ELSE /\ M.lastCleanup = clock
                  /\ \A id \in registered :
                        IF IdleTime(id) > SESSION_TTL_MS
                        THEN /\ id \notin M.registered
                             /\ M.sess[id].proc # "alive"
                             /\ sess[id].interactive # 0
                                    => M.acts[sess[id].interactive].proc # "alive"
                        ELSE /\ id \in M.registered
                             /\ M.sess[id] = sess[id]
                             /\ sess[id].interactive # 0
                                    => M.acts[sess[id].interactive] = acts[sess[id].interactive])
    /\ [][lastCleanup' # lastCleanup =>
            /\ lastCleanup' = clock
            /\ clock - lastCleanup >= CLEANUP_INTERVAL_MS
            /\ \A id \in registered :
                    IdleTime(id) > SESSION_TTL_MS
                        => id \notin registered' /\ sess'[id].proc # "alive"]_vars

\* a sweep has run at this instant: a session idle past the TTL, which a
\* polling call still holds, is out of the map and its shell killed, and a
\* session idle for exactly the TTL is still registered and alive
C30_Witness ==
    /\ lastCleanup = clock
    /\ \E x \in SessIds \ registered, i \in registered :
        /\ sess[x].proc = "killed"
        /\ sess[x].lastUsedAt > 0
        /\ IdleTime(x) > SESSION_TTL_MS
        /\ IdleTime(i) = SESSION_TTL_MS
        /\ sess[i].proc = "alive"
----------------------------------------------------------------------------
(* The working messages of a turn: what the next LLM call is given after    *)
(* the system prompt and the history (lib/assistant.ts, lines 236-301).     *)
(* The j-th tool call of the turn carries the call id j.                    *)

\* an alternative that feeds back the output of successful calls only
PushToolMessageIfOk(working, id, ok) ==
    IF ok THEN Append(working, [role |-> "tool", tool_call_id |-> id, tool_calls |-> <<>>,
                                ok |-> ok])
    ELSE working

\* workingMessages.push(toolMessage), of the try block and of the catch block
PushToolMessage(working, id, ok) ==
    Append(working, [role |-> "tool", tool_call_id |-> id, tool_calls |-> <<>>, ok |-> ok])

\* workingMessages.push({role: "assistant", content, tool_calls})
PushAssistantMessage(working, first, count) ==
    Append(working, [role |-> "assistant", tool_call_id |-> 0,
                     tool_calls |-> [j \in 1..count |-> first + j - 1], ok |-> TRUE])

\* client.chat.completions.create resolves
WorkLLMReturns(resp) ==
    /\ turn.pc = "llm"
    /\ resp.calls > 0 => Len(toolCalls) + resp.calls <= MaxToolCalls
    /\ resp.content # <<>> /\ resp.calls > 0 => Len(turn.text) < MaxText
    /\ LET assistantText == sanitizeAssistantText(resp.content)
           T1 == IF assistantText # <<>>
                 THEN [TCur EXCEPT !.turn.text = @ \o assistantText \o <<"\n">>]
                 ELSE TCur
       IN IF ~resp.hasMessage THEN TCommit(BubblePhase(TCur)) /\ UNCHANGED workingMessages
          ELSE IF resp.calls = 0 THEN TCommit(BubblePhase(T1)) /\ UNCHANGED workingMessages
          ELSE /\ TCommit(BeginToolCall(T1, resp.calls - 1))
               /\ workingMessages' =
                    PushAssistantMessage(workingMessages, Len(toolCalls) + 1, resp.calls)
    /\ UNCHANGED <<shellVars, storeVars, runs, toolVars, channelVars>>

\* runTool resolves: the try block, whose last statement is the push; a
\* callback that throws sends it to the catch block, whose callbacks throw too
WorkToolReturns ==
    /\ turn.pc = "tool"
    /\ TCommit(TryBlock(TCur))
    /\ workingMessages' = IF Throws(TCur) THEN workingMessages
                          ELSE PushToolMessage(workingMessages, turn.cur, TRUE)
    /\ UNCHANGED <<shellVars, storeVars, runs, toolVars, channelVars>>

\* runTool rejects: the catch block
WorkToolThrows ==
    /\ turn.pc = "tool"
    /\ TCommit(CatchBlock(TCur))
    /\ workingMessages' = IF Throws(TCur) THEN workingMessages
                          ELSE PushToolMessage(workingMessages, turn.cur, FALSE)
    /\ UNCHANGED <<shellVars, storeVars, runs, toolVars, channelVars>>

WorkInit == TurnInit

WorkNext ==
    \/ \E viaStream \in BOOLEAN : StartTurn(viaStream)
    \/ \E resp \in LLMResponses : WorkLLMReturns(resp)
    \/ LLMThrows
    \/ WorkToolReturns
    \/ WorkToolThrows
    \/ TokenSlept
    \/ PauseSlept
    \/ ClientDisconnect

WorkSpec == WorkInit /\ [][WorkNext]_vars

\* the positions of the tool messages that answer call `id`
AnswersTo(id) ==
    {q \in 1..Len(workingMessages) :
        workingMessages[q].role = "tool" /\ workingMessages[q].tool_call_id = id}

\* C31: before each LLM call after the first in a turn, the working messages
\* hold, for every tool call of every earlier assistant message with
\* tool_calls, exactly one tool message with the matching tool_call_id, after
\* that assistant message and in the order of the calls, whether the tool
\* succeeded or threw.
C31_ToolOutputsFedBack ==
    (turn.pc = "llm" /\ turn.llmCalls > 1) =>
        \A p \in 1..Len(workingMessages) :
            workingMessages[p].role = "assistant" =>
                LET ids == workingMessages[p].tool_calls
                IN /\ ids # <<>>
                   /\ \A j \in 1..Len(ids) :
                        /\ Cardinality(AnswersTo(ids[j])) = 1
                        /\ \A q \in AnswersTo(ids[j]) :
                            /\ q > p
                            /\ j > 1 => \A r \in AnswersTo(ids[j - 1]) : r < q
                            /\ workingMessages[q].ok = (toolCalls[ids[j]].status = "success")

\* the third LLM call of a turn is made after a round of two calls, the
\* first of which threw, and a round of one call
C31_Witness ==
    /\ turn.pc = "llm" /\ turn.llmCalls = 3
    /\ Len(workingMessages) = 5
    /\ workingMessages[1].tool_calls = <<1, 2>>
    /\ workingMessages[2].role = "tool" /\ ~workingMessages[2].ok
    /\ workingMessages[3].role = "tool" /\ workingMessages[3].ok
    /\ workingMessages[4].tool_calls = <<3>>
    /\ workingMessages[5].tool_call_id = 3

----------------------------------------------------------------------------
(* run_command on a registered session *)

\* C32: when run_command is given the id of a registered session (one the
\* sweep of the call does not remove), the command runs in that session and
\* the result's sessionId is the given id, for every cwd argument: the
\* session is not killed and replaced by a new one.
C32_RunsInGivenSession ==
    [][\A c \in Callers, id \in SessIds, cwd \in CwdArgs, interactive \in BOOLEAN :
        ( /\ id \in cleanupSessions(Cur).registered
          /\ RunCommand(c, Some(id), cwd, interactive, DEFAULT_TIMEOUT_MS) )
        => /\ id \in registered'
           /\ sess'[id].proc = sess[id].proc
           /\ calls'[c].sid = id \/ ret'.res.sessionId = id]_vars

\* a command is running in session 2, in the directory the call named, and
\* the shell of session 1 was killed while the pool had room
C32_Witness ==
    /\ clock = StartClock
    /\ registered = {2}
    /\ sess[1].proc = "killed"
    /\ sess[2].cwd = DirB
    /\ \E c \in Callers : calls[c].pc = "wait" /\ calls[c].sid = 2


\* the same for the calls that name no cwd or the cwd the session has
RunsInGivenSessionSameCwd ==
    [][\A c \in Callers, id \in SessIds, cwd \in CwdArgs, interactive \in BOOLEAN :
        ( /\ id \in cleanupSessions(Cur).registered
          /\ ~IsSome(cwd) \/ PathResolve(Get(cwd)) = sess[id].cwd
          /\ RunCommand(c, Some(id), cwd, interactive, DEFAULT_TIMEOUT_MS) )
        => /\ id \in registered'
           /\ sess'[id].proc = sess[id].proc
           /\ calls'[c].sid = id \/ ret'.res.sessionId = id]_vars

----------------------------------------------------------------------------
(* The read cursors of write_stdin *)

\* C33: a session's stdout and stderr read cursors never exceed the absolute
\* position of their stream (and so the next write_stdin returns from the
\* cursor on: no character the shell wrote is skipped or returned twice),
\* also across the completion of a command.
C33_CursorsWithinStream ==
    \A id \in registered :
        /\ sess[id].stdoutReadAt <= absolutePosition(sess[id].stdout)
        /\ sess[id].stderrReadAt <= absolutePosition(sess[id].stderr)

\* a write_stdin has just reported the completion of a command whose output
\* it returned, and the stdout cursor lies beyond the end of the stream
C33_Witness ==
    /\ ret.res.kind = "write" /\ IsSome(ret.res.completed)
    /\ ret.sid \in registered
    /\ ret.res.stdout # <<>>
    /\ sess[ret.sid].stdoutReadAt > absolutePosition(sess[ret.sid].stdout)
    /\ ~IsSome(sess[ret.sid].pendingCommand)

----------------------------------------------------------------------------
(* The sentinel line and the callers *)

HasMark(text) == \E k \in 1..Len(text) : text[k].k = "mark"

\* C34: the sentinel line of a command never appears in the stdout text
\* returned to a caller, neither by run_command nor by the write_stdin call
\* that detects the command's completion.
C34_SentinelNotReturned ==
    ret.res.kind \in {"run", "write"} => ~HasMark(ret.res.stdout)

\* a write_stdin found the sentinel of the pending command, reported the
\* completion and returned the sentinel line in its stdout
C34_Witness ==
    /\ ret.res.kind = "write" /\ IsSome(ret.res.completed)
    /\ HasMark(ret.res.stdout)
    /\ ret.sid \in registered
    /\ ~IsSome(sess[ret.sid].pendingCommand)
    /\ ~HasMark(sess[ret.sid].stdout.data)

----------------------------------------------------------------------------
(* Sessions with an interactive child, leaving the map *)

ChildIds == 3        \* sessions ever created (child specification)

\* one caller, interactive commands, and every way a session leaves the map
ChildInit == ShellInit(ChildIds, 1, 1, 0) /\ TurnIdle /\ LibIdle
ChildNext ==
    \/ \E c \in Callers, sessionId \in SessionIdArgs, cwd \in CwdArgs :
            RunCommand(c, sessionId, cwd, TRUE, DEFAULT_TIMEOUT_MS)
    \/ \E c \in Callers : IntPollCompleted(c)
    \/ \E c \in Callers : IntPollTimedOut(c)
    \/ \E cwd \in CwdArgs : CreateShellSession(cwd)
    \/ \E sessionId \in SessIds : CloseShellSession(sessionId)
    \/ \E id \in SessIds : ShellExit(id)
    \/ \E a \in ActIds, code \in ExitCodes : InteractiveExit(a, code)
    \/ Tick(PoolClock)
ChildSpec == ChildInit /\ [][ChildNext]_vars

\* C35: whenever a session is removed from the session map (explicit close,
\* TTL sweep, capacity eviction, replacement on a cwd change, or exit of its
\* shell), its shell process and its interactive child process, if any, are
\* not left running.
C35_RemovedSessionsKilled ==
    [][\A id \in registered \ registered' :
        /\ sess'[id].proc # "alive"
        /\ sess[id].interactive # 0 => acts'[sess[id].interactive].proc # "alive"]_vars

\* the same for the sessions removed by a close or by the sweep
ClosedAndSweptKilled ==
    [][\A id \in registered \ registered' :
        (CloseShellSession(id) \/ (lastCleanup' # lastCleanup /\ IdleTime(id) > SESSION_TTL_MS))
        => /\ sess'[id].proc # "alive"
           /\ sess[id].interactive # 0 => acts'[sess[id].interactive].proc # "alive"]_vars

\* two sessions are registered and idle, a third is out of the map with its
\* shell killed, and an interactive child that no session refers to is running
C35_Witness ==
    /\ Cardinality(registered) = MAX_SESSIONS
    /\ \A id \in registered : sess[id].interactive = 0
    /\ \E x \in SessIds \ registered : sess[x].proc = "killed"
    /\ \E a \in ActIds : acts[a].proc = "alive"
----------------------------------------------------------------------------
(* A busy session and the write_stdin that follows the end of its command *)

\* the in-flight command of session `id` has ended: its interactive child has
\* terminated, or the shell has printed the whole sentinel line of the
\* pending command
CommandEnded(id) ==
    \/ sess[id].interactive # 0 /\ acts[sess[id].interactive].proc = "exited"
    \/ /\ IsSome(sess[id].pendingCommand)
       /\ \A k \in 1..Len(sess[id].shellq) :
            sess[id].shellq[k] # Get(sess[id].pendingCommand).token
       /\ ~sess[id].mid

\* C36: a session does not stay busy for ever: once its in-flight command has
\* ended (the interactive child has terminated by exit code or by signal, or
\* the shell has printed the command's sentinel, whatever output follows), a
\* later write_stdin on the session reports completed and clears the
\* in-flight record, so that run_command is accepted again. What decides the
\* answer of write_stdin (the child's exit code, the sentinel line in the
\* retained stdout) does not change once the command has ended, so the claim
\* is checked on every write_stdin that returns after the end.
C36_BusyEnds ==
    [][\A id \in registered :
        (CommandEnded(id) /\ ret'.res.kind = "write" /\ ret'.sid = id /\ id \in registered')
        => /\ IsSome(ret'.res.completed)
           /\ ~SessionBusy(sess'[id])]_vars

\* the same, for an interactive child that ended with an exit code and for a
\* sentinel line that is whole in the retained stdout
BusyEndsWhenVisible ==
    [][\A id \in registered :
        ( /\ \/ /\ sess[id].interactive # 0
                /\ IsSome(acts[sess[id].interactive].exitCode)
             \/ /\ sess[id].interactive = 0
                /\ IsSome(sess[id].pendingCommand)
                /\ HasSentinelLine(sess[id], Get(sess[id].pendingCommand).token)
          /\ ret'.res.kind = "write" /\ ret'.sid = id /\ id \in registered' )
        => /\ IsSome(ret'.res.completed)
           /\ ~SessionBusy(sess'[id])]_vars

\* the sentinel line of the pending command was printed and then pushed out
\* of the retained stdout by later output; a write_stdin reported no
\* completion and the session is still busy
C36_Witness ==
    /\ ret.res.kind = "write" /\ ~IsSome(ret.res.completed)
    /\ ret.sid \in registered
    /\ CommandEnded(ret.sid)
    /\ IsSome(sess[ret.sid].pendingCommand)
    /\ sess[ret.sid].stdout.offset > 0
    /\ ~HasMark(sess[ret.sid].stdout.data)

----------------------------------------------------------------------------
(* A polling run_command and a write_stdin of another caller *)

\* C37: when a run_command that is still polling and a write_stdin from
\* another caller run on the same session, run_command returns timedOut =
\* true only if its command had not ended when it returned: the command is
\* still the session's in-flight command, its sentinel has not been consumed
\* and its interactive child has not been reported completed.
C37_TimedOutMeansRunning ==
    [][/\ \A c \in Callers :
            (RunPollTimedOut(c) /\ calls[c].sid \in registered) =>
                /\ IsSome(sess[calls[c].sid].pendingCommand)
                /\ Get(sess[calls[c].sid].pendingCommand).token = calls[c].token
       /\ \A c \in Callers :
            (IntPollTimedOut(c) /\ calls[c].sid \in registered) =>
                sess[calls[c].sid].interactive = calls[c].act]_vars

\* a run_command returned timedOut = true for a command whose completion a
\* write_stdin of the other caller had consumed: the session is idle
C37_Witness ==
    /\ ret.res.kind = "run" /\ ret.res.timedOut
    /\ ret.token # 0
    /\ ret.sid \in registered
    /\ ~SessionBusy(sess[ret.sid])
    /\ nextToken = ConcTokens - 1

----------------------------------------------------------------------------
(* A start call after a failed start *)

\* the last start of the channel has finished with a failure: nothing is in
\* flight and the state says running = false with lastError set
StartFailed(ch) ==
    /\ channelStore[ch].inFlight = 0
    /\ ~channelStore[ch].running
    /\ channelStore[ch].lastError

\* C38: a start call for a channel made after an earlier start of that
\* channel has finished with a failure (running = false with lastError set)
\* performs a new start attempt: it runs the start body again.
C38_StartRetriesAfterFailure ==
    [][\A c \in StartCallers, ch \in Channels, constructed \in BOOLEAN :
        (StartFailed(ch) /\ StartChannel(c, ch, TRUE, constructed))
            => channelStore'[ch].started = channelStore[ch].started + 1]_vars

\* a failure that left no start promise behind (the missing Telegram token)
\* is retried by the next start call
RetriedWithoutPromise ==
    [][\A c \in StartCallers, ch \in Channels, constructed \in BOOLEAN :
        (/\ StartFailed(ch)
         /\ channelStore[ch].startPromise = "none"
         /\ StartChannel(c, ch, TRUE, constructed))
            => channelStore'[ch].started = channelStore[ch].started + 1]_vars

\* a caller is waiting on the settled promise of a start that failed
C38_Witness ==
    \E c \in StartCallers, ch \in Channels :
        /\ starts[c] = [pc |-> "waiting", channel |-> ch]
        /\ StartFailed(ch)
        /\ channelStore[ch].startPromise = "settled"
        /\ channelStore[ch].started = 1
        /\ \A d \in StartCallers \ {c} : starts[d].pc = "idle"

----------------------------------------------------------------------------
(* What triggerConversationRun does after its turn returned, statement by   *)
(* statement. Every statement of the store is a transaction of its own, so  *)
(* the row between completeTriggerRun and getTriggerRun is the row a reader *)
(* of the table sees; getTriggerRun is a read of the database that may fail *)
(* with the store's error.                                                  *)

StorageError == "storage"

\* lines 59-71: the conversation id and the success are stored
TriggerTurnStored ==
    /\ turn.pc = "done"
    /\ LET finalResult == extractFinalResult(JoinBubbles(turn.bubbles))
       IN runs' = [runs EXCEPT ![Len(runs)] =
                    completeTriggerRun(
                        setTriggerRunConversationId(@, turn.conversationId),
                        TRUE, finalResult, "none")]
    /\ turn' = [turn EXCEPT !.pc = "stored"]
    /\ UNCHANGED <<clock, shellRest, toolCalls, messages, sink, ret>>
    /\ UNCHANGED <<storeVars, toolVars, channelVars, workingMessages>>

\* lines 73-83: the run is reloaded and returned
TriggerReloadReturned ==
    /\ turn.pc = "stored"
    /\ ret' = TriggerReturn(runs[Len(runs)], turn.conversationId,
                            runs[Len(runs)].finalResult)
    /\ turn' = NoTurn
    /\ UNCHANGED <<clock, shellRest, toolCalls, messages, sink>>
    /\ UNCHANGED <<storeVars, runs, workingMessages, toolVars, channelVars>>

\* lines 73 and 84-90: getTriggerRun throws inside the try block; the catch
\* block completes the run with ok = false and re-raises. The UPDATE of the
\* catch block may fail as the read did, and then its error is the one raised
TriggerReloadThrew(again) ==
    /\ turn.pc = "stored"
    /\ runs' = IF again THEN runs
               ELSE [runs EXCEPT ![Len(runs)] =
                        completeTriggerRun(@, FALSE, None, StorageError)]
    /\ ret' = TriggerThrow(StorageError)
    /\ turn' = NoTurn
    /\ UNCHANGED <<clock, shellRest, toolCalls, messages, sink>>
    /\ UNCHANGED <<storeVars, toolVars, channelVars, workingMessages>>

ReloadInit == TurnInit

ReloadNext ==
    \/ TriggerConversationRun
    \/ \E resp \in TriggerResponses : LLMReturns(resp)
    \/ LLMThrows
    \/ ToolReturns
    \/ TokenSlept
    \/ PauseSlept
    \/ TriggerTurnStored
    \/ TriggerReloadReturned
    \/ \E again \in BOOLEAN : TriggerReloadThrew(again)
    \/ TriggerTurnThrew

ReloadSpec == ReloadInit /\ [][ReloadNext]_vars

\* C39: a TriggerRun moves from running to a terminal status exactly once: a
\* stored run whose status is success or error keeps its row in every later
\* step, whatever fails after it was stored.
C39_TerminalOnce ==
    [][\A k \in DOMAIN runs :
        runs[k].status # "running" =>
            /\ k \in DOMAIN runs'
            /\ runs'[k].status = runs[k].status
            /\ runs'[k].error = runs[k].error
            /\ runs'[k].finalResult = runs[k].finalResult]_vars

\* a run stored as error is never rewritten, and a run stored as success is
\* rewritten by no step but the failed reload
ErrorRunsFinal ==
    [][\A k \in DOMAIN runs :
        (runs[k].status = "error"
            \/ (runs[k].status = "success" /\ ~TriggerReloadThrew(FALSE)))
        => k \in DOMAIN runs' /\ runs'[k] = runs[k]]_vars

\* the success of a run is stored, with its final result, and the reload is
\* still to come
C39_Witness ==
    /\ turn.pc = "stored"
    /\ Len(runs) = 2
    /\ runs[2].status = "success"
    /\ IsSome(runs[2].finalResult)
    /\ runs[2].conversationId = Some(turn.conversationId)
    /\ runs[1].status = "error"
    /\ runs[1].error = Some(StorageError)

----------------------------------------------------------------------------
(* The end of a chat stream response *)

TerminalTypes == {"assistant_done", "error"}

\* the terminal events among es
Terminals(es) == {k \in 1..Len(es) : es[k].type \in TerminalTypes}

\* es holds exactly one terminal event, immediately followed by the one
\* [DONE] frame, which is the last
EndsWithTerminal(es) ==
    /\ Len(es) >= 2
    /\ Terminals(es) = {Len(es) - 1}
    /\ es[Len(es)].type = "[DONE]"
    /\ CountType(es, "[DONE]") = 1

\* C40: every chat stream response ends with exactly one terminal event,
\* either assistant_done or error and never both, immediately followed by
\* one [DONE] frame, after which nothing is enqueued and the stream is closed.
C40_OneTerminalThenDone ==
    /\ []((sink.state # "none" /\ turn.pc \in {"done", "failed"})
            => EndsWithTerminal(sink.events) /\ sink.state = "closed")
    /\ [](Terminals(sink.events) # {}
            => EndsWithTerminal(sink.events) /\ sink.state = "closed")
    /\ [][sink.state = "closed" => sink' = sink]_vars

\* a response whose stream the route closed ends with one terminal event and
\* [DONE]; no response holds both terminal events, and nothing follows [DONE]
ClosedStreamsEndWithTerminal ==
    /\ [](sink.state = "closed" => EndsWithTerminal(sink.events))
    /\ [](Terminals(sink.events) # {}
            => EndsWithTerminal(sink.events) /\ sink.state = "closed")
    /\ [][sink.state = "closed" => sink' = sink]_vars

\* a streamed turn stored its bubble and ended after the client had gone
\* away: the response holds no terminal event and no [DONE]
C40_Witness ==
    /\ sink.state = "cancelled"
    /\ turn.pc = "failed"
    /\ turn.error = InvalidState
    /\ AssistantMessages(messages) # <<>>
    /\ Terminals(sink.events) = {}
    /\ CountType(sink.events, "[DONE]") = 0

====
